---- MODULE Spec2Model ----
(***************************************************************************)
(* A model of fecs:                                                        *)
(*   - AtomicRefCell (src/src/borrow.rs): one atomic flag word, shared     *)
(*     guards AtomicRef and exclusive guards AtomicRefMut;                 *)
(*   - OwnedResources (src/src/resources.rs): a map from type-key to       *)
(*     (BorrowFlag, value), guards Ref and RefMut;                         *)
(*   - RefResources (src/src/resources.rs): a view that layers aliased     *)
(*     external variables over an OwnedResources;                          *)
(*   - EntityIndexAllocator (src/src/world/allocator.rs);                  *)
(*   - Executor (src/src/system.rs) and EventHandlers (src/src/events.rs): *)
(*     systems, event handlers, the pool of system contexts and the        *)
(*     dispatch of events;                                                 *)
(*   - ErasedVec (src/src/erased_vec.rs): pointer, capacity, length and    *)
(*     layout over allocations the allocator hands out;                    *)
(*   - build_executor (src/src/registry.rs): the registered systems taken  *)
(*     out of their mutexes;                                               *)
(*   - EntityBuilder and BuiltEntity (src/src/builder.rs): the byte        *)
(*     buffer of the components, their entries and the cursor, and the     *)
(*     entities spawned from them.                                         *)
(* Every atomic operation of the source (fetch_add, fetch_sub,             *)
(* compare_and_swap, load, store) is one step, so threads interleave       *)
(* between the atomic operations of one call exactly as they can in the    *)
(* code.  The flag words are FlagBits wide instead of 32.  Executor::      *)
(* execute is one step per loop iteration of its three nested loops; a     *)
(* system or handler that panics ends the call and unwinds its contexts.   *)
(***************************************************************************)
EXTENDS Integers, FiniteSets, Sequences, TLC

\* ------------------------------------------------------------------ bounds
\* Width of the flag words (AtomicU32 in the source, scaled down).
FlagBits == 4
\* Guards of one kind one thread may hold at a time on one cell / key.
MaxGuards == 2
\* Entries of a RefResources view (ArrayVec of 4 in the source, scaled down).
MaxRefs == 2
\* Values the counter of the allocator takes (u32 in the source).
MaxNext == 4
\* Length of the free queue when any index may be freed.
MaxFree == 3
\* Systems registered with an Executor.
MaxSystems == 2
\* Handlers registered with an Executor or an EventHandlers.
MaxHandlers == 3
\* Frames of the call stack of execute beyond which dispatch is not followed.
MaxDepth == 9
\* Contexts the pool of an Executor starts with (128 in the source, scaled down).
PoolCap == 2
\* Largest capacity an ErasedVec grows to.
MaxCap == 3
\* Calls of build_executor in the lifecycle of the application.
MaxBuilds == 3
\* Entities spawned from one EntityBuilder.
MaxSpawns == 2
\* Largest capacity the byte buffer of an EntityBuilder is given.
MaxBytes == 6

Threads == {1, 2}
Keys == {"i32", "i64"}
Values == {10, 11}

FlagModulus == 2 ^ FlagBits

VARIABLES
    \* --- AtomicRefCell
    flag,        \* AtomicRefCell::flag
    cpc,         \* per thread: position inside an AtomicRefCell call
    readers,     \* per thread: live AtomicRef guards
    writers,     \* per thread: live AtomicRefMut guards
    cret,        \* what the call that returned in the last step returned
    phantomSeen, \* history: a try_borrow failed and left its increment
    \* --- OwnedResources
    types,       \* OwnedResources::types, a set of [key, flag, value]
    rpc,         \* per thread: position inside a resources call
    refs,        \* per thread, per key: live Ref guards
    muts,        \* per thread, per key: live RefMut guards
    rret,        \* what the call that returned in the last step returned
    lastIns,     \* history: per key, the value of the last insert
    written,     \* history: per key, written through a RefMut since then
    \* --- RefResources
    vlive,       \* a RefResources view of the container exists
    vrefs,       \* RefResources::refs, a sequence of [key, flag]
    ext,         \* the externally owned variables the entries of vrefs point to
    arefs,       \* per entry of vrefs: live Ref guards
    amuts,       \* per entry of vrefs: live RefMut guards
    vsrc,        \* which container the last call on the view ended in
    extW,        \* history: per external variable, the last value written through the view
    \* --- EntityIndexAllocator
    freeq,       \* EntityIndexAllocator::free, oldest first
    next,        \* EntityIndexAllocator::next
    aret,        \* what the last allocator call returned, and the state it was made in
    live,        \* history: the indices handed out by alloc and not freed since
    \* --- Executor
    systems,        \* Executor::systems
    event_handlers, \* EventHandlerStore::handlers
    system_ctxs,    \* Executor::system_ctxs, the pooled contexts, last returned last
    stack,          \* the call stack of execute, innermost frame last
    log,            \* history: the invocations of the current execute call
    phase,          \* "setup", "executing" or "executed"
    pool0,          \* history: the size of the pool when execute was called
    ctx_ids,        \* which context each entry of system_ctxs is
    out_ids,        \* the contexts checked out of the pool, innermost last
    \* --- EventHandlers
    ehandlers,      \* EventHandlers.0
    tlog,           \* history: the handler calls of the last trigger
    tvalues,        \* the i32 resource and the i32 component the handlers write to
    tret,           \* what the last EventHandlers call was, and the values it found
    \* --- ErasedVec
    evec,           \* the fields of the ErasedVec: ptr, capacity, len, layout
    estate,         \* "none" before its construction, "live", "dropped"
    emem,           \* the slots of the allocation ptr points to, 0 = not written
    eheap,          \* the allocations that were made and not deallocated
    eret,           \* what the last call did, and the state it was made in
    ecleared,       \* history: clear was called on the vector while it owned memory
    eappended,      \* history: the values pushed or extended with since the last clear
    \* --- build_executor
    registry,       \* the SystemRegistration values of inventory, in iteration order
    bcall,          \* the position of the current build_executor call
    ncalls,         \* the build_executor calls made so far
    bret,           \* history: how each build_executor call ended
    \* --- EntityBuilder
    components,     \* EntityBuilder::components: the bytes of its allocation
    component_data, \* EntityBuilder::component_data, a sequence of [ty, offset]
    cursor,         \* EntityBuilder::cursor
    built,          \* a BuiltEntity borrows the builder
    spawned,        \* the entities of the world, each the components written to it
    added,          \* history: the components added since the last spawn
    ebret           \* what the last builder call did, and the state it was made in

cellVars == <<flag, cpc, readers, writers, cret, phantomSeen>>
resVars == <<types, rpc, refs, muts, rret, lastIns, written>>
viewVars == <<vlive, vrefs, ext, arefs, amuts, vsrc, extW>>
allocVars == <<freeq, next, aret, live>>
execVars == <<systems, event_handlers, system_ctxs, stack, log, phase, pool0, ctx_ids, out_ids>>
eventVars == <<ehandlers, tlog, tvalues, tret>>
vecVars == <<evec, estate, emem, eheap, eret, ecleared, eappended>>
regVars == <<registry, bcall, ncalls, bret>>
builderVars == <<components, component_data, cursor, built, spawned, added, ebret>>
nonCellVars == <<resVars, viewVars, allocVars, execVars, eventVars, vecVars, regVars, builderVars>>
nonResVars == <<cellVars, viewVars, allocVars, execVars, eventVars, vecVars, regVars, builderVars>>
nonExecVars == <<cellVars, resVars, viewVars, allocVars, vecVars, regVars, builderVars>>
nonVecVars == <<cellVars, resVars, viewVars, allocVars, execVars, eventVars, regVars, builderVars>>
nonRegVars == <<cellVars, resVars, viewVars, allocVars, execVars, eventVars, vecVars, builderVars>>
nonBuilderVars == <<cellVars, resVars, viewVars, allocVars, execVars, eventVars, vecVars, regVars>>
vars == <<flag, cpc, readers, writers, cret, phantomSeen,
          types, rpc, refs, muts, rret, lastIns, written,
          vlive, vrefs, ext, arefs, amuts, vsrc, extW,
          freeq, next, aret, live,
          systems, event_handlers, system_ctxs, stack, log, phase, pool0, ctx_ids, out_ids,
          ehandlers, tlog, tvalues, tret,
          evec, estate, emem, eheap, eret, ecleared, eappended,
          registry, bcall, ncalls, bret,
          components, component_data, cursor, built, spawned, added, ebret>>

RECURSIVE SumOver(_, _)
SumOver(f, S) == IF S = {} THEN 0 ELSE LET x == CHOOSE y \in S : TRUE IN f[x] + SumOver(f, S \ {x})

\* ============================================================ AtomicRefCell
NO_BORROWS == 0
MUTABLE_MASK == 2 ^ (FlagBits - 1)

\* flag & MUTABLE_MASK != 0
MutBitSet(f) == (f \div MUTABLE_MASK) % 2 = 1

\* AtomicU32::fetch_add(1) / fetch_sub(1): wrapping arithmetic
WrapInc(f) == (f + 1) % FlagModulus
WrapDec(f) == (f + FlagModulus - 1) % FlagModulus

NoCall == [thread |-> 0, op |-> "none", result |-> "none"]
Returned(t, o, r) == [thread |-> t, op |-> o, result |-> r]

\* Result<_, E>::unwrap_or_else(|e| panic!(..)) of borrow() / borrow_mut()
Unwrap(conv, r) == IF conv /\ r # "Ok" THEN "panic" ELSE r
AfterCall(conv, r) == IF conv /\ r # "Ok" THEN "panicked" ELSE "idle"

\* try_borrow's test of the value fetch_add returned
TryBorrowResult_NoMaskTest(old) == "Ok"
TryBorrowResult(old) == IF MutBitSet(old) THEN "MutablyBorrowed" ELSE "Ok"

\* compare_and_swap(NO_BORROWS, MUTABLE_MASK): whether it swaps, and the
\* value of the flag after it
CasSwaps_MaskBitOnly(old) == ~MutBitSet(old)
CasSwaps(old) == old = NO_BORROWS
CasMutable(old) == IF CasSwaps(old) THEN MUTABLE_MASK ELSE old

\* try_borrow_mut's test of the value compare_and_swap returned
TryBorrowMutResult(old) == IF CasSwaps(old) THEN "Ok" ELSE "ImmutablyBorrowed"

\* release_mut: the value stored
ReleaseMutValue_ClearsMaskOnly == flag % MUTABLE_MASK
ReleaseMutValue == NO_BORROWS

CellInit ==
    /\ flag = NO_BORROWS
    /\ cpc = [t \in Threads |-> "idle"]
    /\ readers = [t \in Threads |-> 0]
    /\ writers = [t \in Threads |-> 0]
    /\ cret = NoCall
    /\ phantomSeen = FALSE

\* try_borrow (conv = FALSE) and borrow (conv = TRUE)
Borrow(t, conv) ==
    /\ cpc[t] = "idle"
    /\ LET r == TryBorrowResult(flag) IN
        /\ flag' = WrapInc(flag)
        /\ readers' = IF r = "Ok" THEN [readers EXCEPT ![t] = @ + 1] ELSE readers
        /\ phantomSeen' = (phantomSeen \/ r # "Ok")
        /\ cret' = Returned(t, IF conv THEN "borrow" ELSE "try_borrow", Unwrap(conv, r))
        /\ cpc' = [cpc EXCEPT ![t] = AfterCall(conv, r)]
    /\ UNCHANGED <<writers, nonCellVars>>

try_borrow(t) == Borrow(t, FALSE)
borrow(t) == Borrow(t, TRUE)

\* try_borrow_mut (conv = FALSE) and borrow_mut (conv = TRUE)
BorrowMut(t, conv) ==
    /\ cpc[t] = "idle"
    /\ LET r == TryBorrowMutResult(flag) IN
        /\ flag' = CasMutable(flag)
        /\ writers' = IF r = "Ok" THEN [writers EXCEPT ![t] = @ + 1] ELSE writers
        /\ cret' = Returned(t, IF conv THEN "borrow_mut" ELSE "try_borrow_mut", Unwrap(conv, r))
        /\ cpc' = [cpc EXCEPT ![t] = AfterCall(conv, r)]
    /\ UNCHANGED <<readers, phantomSeen, nonCellVars>>

try_borrow_mut(t) == BorrowMut(t, FALSE)
borrow_mut(t) == BorrowMut(t, TRUE)

\* Drop for AtomicRef -> release_ref: the two debug assertions are two loads
\* of the flag, the decrement is a third atomic operation.  A guard dropped
\* by a panicking thread is dropped during unwinding.
CanDrop(at) == at \in {"idle", "panicked"}

release_ref_assert_mask(t) ==
    /\ CanDrop(cpc[t])
    /\ readers[t] > 0
    /\ IF MutBitSet(flag)
       THEN /\ cpc' = [cpc EXCEPT ![t] = "panicked"]
            /\ readers' = [readers EXCEPT ![t] = @ - 1]
            /\ cret' = Returned(t, "release_ref", "panic")
       ELSE /\ cpc' = [cpc EXCEPT ![t] = IF cpc[t] = "idle" THEN "rel_gt0" ELSE "rel_gt0_unwind"]
            /\ readers' = readers
            /\ cret' = NoCall
    /\ UNCHANGED <<flag, writers, phantomSeen, nonCellVars>>

release_ref_assert_gt0(t) ==
    /\ cpc[t] \in {"rel_gt0", "rel_gt0_unwind"}
    /\ IF flag > 0
       THEN /\ cpc' = [cpc EXCEPT ![t] = IF cpc[t] = "rel_gt0" THEN "rel_sub" ELSE "rel_sub_unwind"]
            /\ readers' = readers
            /\ cret' = NoCall
       ELSE /\ cpc' = [cpc EXCEPT ![t] = "panicked"]
            /\ readers' = [readers EXCEPT ![t] = @ - 1]
            /\ cret' = Returned(t, "release_ref", "panic")
    /\ UNCHANGED <<flag, writers, phantomSeen, nonCellVars>>

release_ref_fetch_sub(t) ==
    /\ cpc[t] \in {"rel_sub", "rel_sub_unwind"}
    /\ flag' = WrapDec(flag)
    /\ readers' = [readers EXCEPT ![t] = @ - 1]
    /\ cpc' = [cpc EXCEPT ![t] = IF cpc[t] = "rel_sub" THEN "idle" ELSE "panicked"]
    /\ cret' = Returned(t, "release_ref", "Ok")
    /\ UNCHANGED <<writers, phantomSeen, nonCellVars>>

\* Drop for AtomicRefMut -> release_mut: one store
release_mut(t) ==
    /\ CanDrop(cpc[t])
    /\ writers[t] > 0
    /\ flag' = ReleaseMutValue
    /\ writers' = [writers EXCEPT ![t] = @ - 1]
    /\ cret' = Returned(t, "release_mut", "Ok")
    /\ UNCHANGED <<cpc, readers, phantomSeen, nonCellVars>>

\* The count field of the flag is not saturated: one more fetch_add neither
\* carries into the MUTABLE_MASK bit nor wraps the word.
NoOverflow == flag % MUTABLE_MASK < MUTABLE_MASK - 1

CellNext ==
    \/ \E t \in Threads : NoOverflow /\ readers[t] < MaxGuards /\ try_borrow(t)
    \/ \E t \in Threads : NoOverflow /\ readers[t] < MaxGuards /\ borrow(t)
    \/ \E t \in Threads : try_borrow_mut(t)
    \/ \E t \in Threads : borrow_mut(t)
    \/ \E t \in Threads : release_ref_assert_mask(t)
    \/ \E t \in Threads : release_ref_assert_gt0(t)
    \/ \E t \in Threads : release_ref_fetch_sub(t)
    \/ \E t \in Threads : release_mut(t)

\* The cell with the flag free to carry into the MUTABLE_MASK bit and to wrap:
\* fetch_add has no overflow check, so an attempt is made whatever the flag
\* holds.  Only the guards one thread holds at a time are bounded.
CellWrapNext ==
    \/ \E t \in Threads : readers[t] < MaxGuards /\ try_borrow(t)
    \/ \E t \in Threads : readers[t] < MaxGuards /\ borrow(t)
    \/ \E t \in Threads : writers[t] < MaxGuards /\ try_borrow_mut(t)
    \/ \E t \in Threads : writers[t] < MaxGuards /\ borrow_mut(t)
    \/ \E t \in Threads : release_ref_assert_mask(t)
    \/ \E t \in Threads : release_ref_assert_gt0(t)
    \/ \E t \in Threads : release_ref_fetch_sub(t)
    \/ \E t \in Threads : release_mut(t)

\* ============================================================ OwnedResources
\* u32::max_value(): the BorrowFlag value of a mutable borrow
FLAG_MAX == FlagModulus - 1

\* FxHashMap::get(&TypeId::of::<T>())
Has(k) == \E e \in types : e.key = k
Entry(k) == CHOOSE e \in types : e.key = k
FlagOf(k) == Entry(k).flag
ValueOf(k) == Entry(k).value

\* a store to the flag / to the value of the entry found under k
SetFlag(k, f) == {IF e = Entry(k) THEN [e EXCEPT !.flag = f] ELSE e : e \in types}
SetValue(k, v) == {IF e = Entry(k) THEN [e EXCEPT !.value = v] ELSE e : e \in types}

\* FxHashMap::insert(TypeId::of::<T>(), (BorrowFlag::default(), ..resource..))
MapInsert_KeepsOld(m, k, v) ==
    IF \E e \in m : e.key = k THEN m ELSE m \cup {[key |-> k, flag |-> 0, value |-> v]}
MapInsert_NoRemove(m, k, v) == m \cup {[key |-> k, flag |-> 0, value |-> v]}
MapInsert(m, k, v) == {e \in m : e.key # k} \cup {[key |-> k, flag |-> 0, value |-> v]}

\* BorrowFlag::obtain_mutable: compare_and_swap(0, u32::max_value()) == 0
ObtainMutableOk_NotMutable(f) == f # FLAG_MAX
ObtainMutableOk(f) == f = 0
ObtainMutableStore(f) == IF ObtainMutableOk(f) THEN FLAG_MAX ELSE f

\* BorrowFlag::obtain_immutable: the test of the loaded value, and the
\* compare_and_swap(val, val + 1) == val
IsMutablyBorrowed(val) == val = FLAG_MAX
CasImmutableOk_NeverSwaps(f, val) == FALSE
CasImmutableOk(f, val) == f = val
CasImmutableStore(f, val) == IF CasImmutableOk(f, val) THEN (val + 1) % FlagModulus ELSE f

\* BorrowFlag::release_immutable: fetch_sub(1)
ReleaseImmutable(f) == WrapDec(f)

\* BorrowFlag::release_mutable: the value stored
ReleaseMutableStore == 0

\* the errors of the ok_or_else / and_then chain of try_get and try_get_mut
AlreadyBorrowed == "AlreadyBorrowed"
NotFound_WrongVariant == "AlreadyBorrowed"
NotFound == "NotFound"

RIdle == [at |-> "idle", key |-> "-", val |-> 0, conv |-> FALSE]
RPanicked == [at |-> "panicked", key |-> "-", val |-> 0, conv |-> FALSE]
RNoCall == [thread |-> 0, op |-> "none", key |-> "-", result |-> "none", value |-> 0]
RReturned(t, o, k, r, v) == [thread |-> t, op |-> o, key |-> k, result |-> r, value |-> v]

\* Result::unwrap() of get / get_mut
RUnwrap_NoPanic(conv, r) == r
RUnwrap(conv, r) == IF conv /\ r # "Ok" THEN "panic" ELSE r
RAfter(conv, r) == IF conv /\ r # "Ok" THEN RPanicked ELSE RIdle

ResInit ==
    /\ types = {}
    /\ rpc = [t \in Threads |-> RIdle]
    /\ refs = [t \in Threads |-> [k \in Keys |-> 0]]
    /\ muts = [t \in Threads |-> [k \in Keys |-> 0]]
    /\ rret = RNoCall
    /\ lastIns = [k \in Keys |-> 0]
    /\ written = [k \in Keys |-> FALSE]

\* No guard is live and no thread is inside a call: what `&mut self` demands
Unborrowed ==
    \A t \in Threads :
        /\ rpc[t].at \in {"idle", "panicked"}
        /\ \A k \in Keys : refs[t][k] = 0 /\ muts[t][k] = 0

\* OwnedResources::insert (and with)
insert(t, k, v) ==
    /\ Unborrowed
    /\ rpc[t].at = "idle"
    /\ types' = MapInsert(types, k, v)
    /\ lastIns' = [lastIns EXCEPT ![k] = v]
    /\ written' = [written EXCEPT ![k] = FALSE]
    /\ rret' = RReturned(t, "insert", k, IF Has(k) THEN "replaced" ELSE "added", v)
    /\ UNCHANGED <<rpc, refs, muts, nonResVars>>

\* The end of a try_get (conv = FALSE) or get (conv = TRUE) that fails with r
GetFails(t, k, conv, r) ==
    /\ rret' = RReturned(t, IF conv THEN "get" ELSE "try_get", k, RUnwrap(conv, r), 0)
    /\ rpc' = [rpc EXCEPT ![t] = RAfter(conv, r)]
    /\ UNCHANGED <<types, refs>>

\* One load of obtain_immutable's loop
LoadImmutable(t, k, conv) ==
    LET val == FlagOf(k) IN
    IF IsMutablyBorrowed(val)
    THEN GetFails(t, k, conv, AlreadyBorrowed)
    ELSE /\ rpc' = [rpc EXCEPT ![t] = [at |-> "cas", key |-> k, val |-> val, conv |-> conv]]
         /\ rret' = RNoCall
         /\ UNCHANGED <<types, refs>>

\* try_get / get: the lookup and the first load of obtain_immutable
GetInner(t, k, conv) ==
    /\ rpc[t].at = "idle"
    /\ IF Has(k) THEN LoadImmutable(t, k, conv) ELSE GetFails(t, k, conv, NotFound)
    /\ UNCHANGED <<muts, lastIns, written>>

GetCall(t, k, conv) == GetInner(t, k, conv) /\ UNCHANGED nonResVars

try_get(t, k) == GetCall(t, k, FALSE)
get(t, k) == GetCall(t, k, TRUE)

\* obtain_immutable: the compare_and_swap; a guard Ref on success, the next
\* iteration of the loop on failure
obtain_immutable_cas(t) ==
    /\ rpc[t].at = "cas"
    /\ LET k == rpc[t].key
           val == rpc[t].val
           conv == rpc[t].conv IN
        /\ types' = SetFlag(k, CasImmutableStore(FlagOf(k), val))
        /\ IF CasImmutableOk(FlagOf(k), val)
           THEN /\ refs' = [refs EXCEPT ![t][k] = @ + 1]
                /\ rpc' = [rpc EXCEPT ![t] = RIdle]
                /\ rret' = RReturned(t, IF conv THEN "get" ELSE "try_get", k, "Ok", ValueOf(k))
           ELSE /\ refs' = refs
                /\ rpc' = [rpc EXCEPT ![t].at = "load"]
                /\ rret' = RNoCall
    /\ UNCHANGED <<muts, lastIns, written, nonResVars>>

\* obtain_immutable: the load of a later iteration
obtain_immutable_load(t) ==
    /\ rpc[t].at = "load"
    /\ LoadImmutable(t, rpc[t].key, rpc[t].conv)
    /\ UNCHANGED <<muts, lastIns, written, nonResVars>>

\* try_get_mut (conv = FALSE) and get_mut (conv = TRUE)
GetMutInner(t, k, conv) ==
    /\ rpc[t].at = "idle"
    /\ LET r == IF ~Has(k) THEN NotFound
                ELSE IF ObtainMutableOk(FlagOf(k)) THEN "Ok" ELSE AlreadyBorrowed IN
        /\ types' = IF Has(k) THEN SetFlag(k, ObtainMutableStore(FlagOf(k))) ELSE types
        /\ muts' = IF r = "Ok" THEN [muts EXCEPT ![t][k] = @ + 1] ELSE muts
        /\ rret' = RReturned(t, IF conv THEN "get_mut" ELSE "try_get_mut", k, RUnwrap(conv, r),
                             IF r = "Ok" THEN ValueOf(k) ELSE 0)
        /\ rpc' = [rpc EXCEPT ![t] = RAfter(conv, r)]
    /\ UNCHANGED <<refs, lastIns, written>>

GetMutCall(t, k, conv) == GetMutInner(t, k, conv) /\ UNCHANGED nonResVars

try_get_mut(t, k) == GetMutCall(t, k, FALSE)
get_mut(t, k) == GetMutCall(t, k, TRUE)

\* DerefMut for RefMut: a write through the guard
deref_mut(t, k, v) ==
    /\ rpc[t].at = "idle"
    /\ muts[t][k] > 0
    /\ types' = SetValue(k, v)
    /\ written' = [written EXCEPT ![k] = TRUE]
    /\ rret' = RReturned(t, "deref_mut", k, "Ok", v)
    /\ UNCHANGED <<rpc, refs, muts, lastIns, nonResVars>>

\* Drop for Ref -> release_immutable
drop_Ref(t, k) ==
    /\ CanDrop(rpc[t].at)
    /\ refs[t][k] > 0
    /\ types' = SetFlag(k, ReleaseImmutable(FlagOf(k)))
    /\ refs' = [refs EXCEPT ![t][k] = @ - 1]
    /\ rret' = RReturned(t, "drop_Ref", k, "Ok", 0)
    /\ UNCHANGED <<rpc, muts, lastIns, written, nonResVars>>

\* Drop for RefMut -> release_mutable: the debug assertion is a load
release_mutable_assert(t, k) ==
    /\ CanDrop(rpc[t].at)
    /\ muts[t][k] > 0
    /\ IF FlagOf(k) = FLAG_MAX
       THEN /\ rpc' = [rpc EXCEPT ![t] = [at |-> IF rpc[t].at = "idle" THEN "rel_store" ELSE "rel_store_unwind",
                                         key |-> k, val |-> 0, conv |-> FALSE]]
            /\ muts' = muts
            /\ rret' = RNoCall
       ELSE /\ rpc' = [rpc EXCEPT ![t] = RPanicked]
            /\ muts' = [muts EXCEPT ![t][k] = @ - 1]
            /\ rret' = RReturned(t, "drop_RefMut", k, "panic", 0)
    /\ UNCHANGED <<types, refs, lastIns, written, nonResVars>>

\* release_mutable: the store
release_mutable_store(t) ==
    /\ rpc[t].at \in {"rel_store", "rel_store_unwind"}
    /\ LET k == rpc[t].key IN
        /\ types' = SetFlag(k, ReleaseMutableStore)
        /\ muts' = [muts EXCEPT ![t][k] = @ - 1]
        /\ rret' = RReturned(t, "drop_RefMut", k, "Ok", 0)
    /\ rpc' = [rpc EXCEPT ![t] = IF rpc[t].at = "rel_store" THEN RIdle ELSE RPanicked]
    /\ UNCHANGED <<refs, lastIns, written, nonResVars>>

\* The borrowing calls of the threads
ResBorrowNext ==
    \/ \E t \in Threads, k \in Keys : refs[t][k] < MaxGuards /\ try_get(t, k)
    \/ \E t \in Threads, k \in Keys : refs[t][k] < MaxGuards /\ get(t, k)
    \/ \E t \in Threads : obtain_immutable_cas(t)
    \/ \E t \in Threads : obtain_immutable_load(t)
    \/ \E t \in Threads, k \in Keys : try_get_mut(t, k)
    \/ \E t \in Threads, k \in Keys : get_mut(t, k)
    \/ \E t \in Threads, k \in Keys : drop_Ref(t, k)
    \/ \E t \in Threads, k \in Keys : release_mutable_assert(t, k)
    \/ \E t \in Threads : release_mutable_store(t)

\* The container shared by the threads, its values read and replaced
ResNext ==
    \/ \E t \in Threads, k \in Keys, v \in Values : insert(t, k, v)
    \/ ResBorrowNext

\* The container used by one thread, its values also written through RefMut
SeqThreads == {1}
ResSeqNext ==
    \/ \E t \in SeqThreads, k \in Keys, v \in Values : insert(t, k, v)
    \/ \E t \in SeqThreads, k \in Keys, v \in Values : deref_mut(t, k, v)
    \/ \E t \in SeqThreads, k \in Keys : refs[t][k] < MaxGuards /\ try_get(t, k)
    \/ \E t \in SeqThreads, k \in Keys : refs[t][k] < MaxGuards /\ get(t, k)
    \/ \E t \in SeqThreads : obtain_immutable_cas(t)
    \/ \E t \in SeqThreads, k \in Keys : try_get_mut(t, k)
    \/ \E t \in SeqThreads, k \in Keys : get_mut(t, k)
    \/ \E t \in SeqThreads, k \in Keys : drop_Ref(t, k)
    \/ \E t \in SeqThreads, k \in Keys : release_mutable_assert(t, k)
    \/ \E t \in SeqThreads : release_mutable_store(t)

\* ============================================================ RefResources
\* A view is owned by one thread (RefResources holds raw pointers and is not
\* Sync): ViewThread makes its calls through the view, the other threads
\* share the inner OwnedResources directly.
ViewThread == 1
DirectThreads == Threads \ {ViewThread}
ExtVars == 1..MaxRefs
\* The value the container holds and the value the external variables start with
OwnedValues == {10}
ExtValues == {11}

\* ResourceTuple::into_vec: one entry per reference of the tuple, in order
IntoVec(ks) == [i \in 1..Len(ks) |-> [key |-> ks[i], flag |-> 0]]

\* refs.iter().find(|(id, _)| *id == TypeId::of::<T>()): the index of the
\* first entry of the type, 0 for None
FindRef(k) ==
    IF \E i \in 1..Len(vrefs) : vrefs[i].key = k
    THEN CHOOSE i \in 1..Len(vrefs) :
            vrefs[i].key = k /\ \A j \in 1..(i - 1) : vrefs[j].key # k
    ELSE 0

\* .or_else(|_| self.inner.try_get()): the inner container is asked whenever
\* the aliased lookup ended in an error, whichever error it is; an Ok passes
\* through
OrElse_Never(r) == FALSE
OrElse(r) == r # "Ok"

\* ok_or_else(NotFound).and_then(obtain_immutable): the aliased lookup of try_get
AliasedGet(i) ==
    IF i = 0 THEN NotFound
    ELSE IF IsMutablyBorrowed(vrefs[i].flag) THEN AlreadyBorrowed ELSE "Ok"

\* ok_or_else(NotFound).and_then(obtain_mutable): the aliased lookup of try_get_mut
AliasedGetMut(i) ==
    IF i = 0 THEN NotFound
    ELSE IF ObtainMutableOk(vrefs[i].flag) THEN "Ok" ELSE AlreadyBorrowed

ViewInit ==
    /\ vlive = FALSE
    /\ vrefs = << >>
    /\ ext = << >>
    /\ arefs = [i \in ExtVars |-> 0]
    /\ amuts = [i \in ExtVars |-> 0]
    /\ vsrc = "none"
    /\ extW = << >>

\* RefResources::new(&inner, (&mut x1, ..)): xi holds vs[i] and has type ks[i]
view_new(ks, vs) ==
    /\ ~vlive
    /\ rpc[ViewThread].at = "idle"
    /\ Len(ks) = Len(vs)
    /\ vlive' = TRUE
    /\ vrefs' = IntoVec(ks)
    /\ ext' = vs
    /\ extW' = [i \in 1..Len(ks) |-> 0]
    /\ vsrc' = "none"
    /\ rret' = RNoCall
    /\ UNCHANGED <<types, rpc, refs, muts, lastIns, written, arefs, amuts, cellVars, allocVars, execVars, eventVars, vecVars, regVars, builderVars>>

\* The view goes out of scope: every guard taken through it is gone by then
view_drop ==
    /\ vlive
    /\ rpc[ViewThread].at \in {"idle", "panicked"}
    /\ \A i \in ExtVars : arefs[i] = 0 /\ amuts[i] = 0
    /\ \A k \in Keys : refs[ViewThread][k] = 0 /\ muts[ViewThread][k] = 0
    /\ vlive' = FALSE
    /\ vrefs' = << >>
    /\ vsrc' = "none"
    /\ rret' = RNoCall
    /\ UNCHANGED <<types, rpc, refs, muts, lastIns, written, ext, arefs, amuts, extW, cellVars, allocVars, execVars, eventVars, vecVars, regVars, builderVars>>

\* RefResources::try_get (conv = FALSE) and get (conv = TRUE)
ViewGet(k, conv) ==
    LET t == ViewThread
        i == FindRef(k)
        r == AliasedGet(i) IN
    /\ vlive
    /\ rpc[t].at = "idle"
    /\ IF OrElse(r)
       THEN /\ GetInner(t, k, conv)
            /\ vsrc' = "inner"
            /\ UNCHANGED <<vrefs, arefs>>
       ELSE /\ vsrc' = "alias"
            /\ IF r = "Ok"
               THEN /\ vrefs' = [vrefs EXCEPT ![i].flag = CasImmutableStore(@, @)]
                    /\ arefs' = [arefs EXCEPT ![i] = @ + 1]
                    /\ rret' = RReturned(t, IF conv THEN "get" ELSE "try_get", k, "Ok", ext[i])
                    /\ UNCHANGED <<types, rpc, refs, muts, lastIns, written>>
               ELSE /\ GetFails(t, k, conv, r)
                    /\ UNCHANGED <<muts, lastIns, written, vrefs, arefs>>
    /\ UNCHANGED <<vlive, ext, amuts, extW, cellVars, allocVars, execVars, eventVars, vecVars, regVars, builderVars>>

view_try_get(k) == ViewGet(k, FALSE)
view_get(k) == ViewGet(k, TRUE)

\* RefResources::try_get_mut (conv = FALSE) and get_mut (conv = TRUE)
ViewGetMut(k, conv) ==
    LET t == ViewThread
        i == FindRef(k)
        r == AliasedGetMut(i) IN
    /\ vlive
    /\ rpc[t].at = "idle"
    /\ IF OrElse(r)
       THEN /\ GetMutInner(t, k, conv)
            /\ vsrc' = "inner"
            /\ UNCHANGED <<vrefs, amuts>>
       ELSE /\ vsrc' = "alias"
            /\ IF r = "Ok"
               THEN /\ vrefs' = [vrefs EXCEPT ![i].flag = ObtainMutableStore(@)]
                    /\ amuts' = [amuts EXCEPT ![i] = @ + 1]
                    /\ rret' = RReturned(t, IF conv THEN "get_mut" ELSE "try_get_mut", k, "Ok", ext[i])
                    /\ rpc' = rpc
               ELSE /\ rret' = RReturned(t, IF conv THEN "get_mut" ELSE "try_get_mut", k,
                                         RUnwrap(conv, r), 0)
                    /\ rpc' = [rpc EXCEPT ![t] = RAfter(conv, r)]
                    /\ UNCHANGED <<vrefs, amuts>>
            /\ UNCHANGED <<types, refs, muts, lastIns, written>>
    /\ UNCHANGED <<vlive, ext, arefs, extW, cellVars, allocVars, execVars, eventVars, vecVars, regVars, builderVars>>

view_try_get_mut(k) == ViewGetMut(k, FALSE)
view_get_mut(k) == ViewGetMut(k, TRUE)

\* DerefMut for a RefMut of an aliased entry: the write lands in the
\* external variable the entry points to
view_deref_mut(i, v) ==
    /\ rpc[ViewThread].at = "idle"
    /\ amuts[i] > 0
    /\ ext' = [ext EXCEPT ![i] = v]
    /\ extW' = [extW EXCEPT ![i] = v]
    /\ rret' = RReturned(ViewThread, "deref_mut", vrefs[i].key, "Ok", v)
    /\ UNCHANGED <<types, rpc, refs, muts, lastIns, written,
                   vlive, vrefs, arefs, amuts, vsrc, cellVars, allocVars, execVars, eventVars, vecVars, regVars, builderVars>>

\* Drop for a Ref of an aliased entry
view_drop_Ref(i) ==
    /\ CanDrop(rpc[ViewThread].at)
    /\ arefs[i] > 0
    /\ vrefs' = [vrefs EXCEPT ![i].flag = ReleaseImmutable(@)]
    /\ arefs' = [arefs EXCEPT ![i] = @ - 1]
    /\ rret' = RReturned(ViewThread, "drop_Ref", vrefs[i].key, "Ok", 0)
    /\ UNCHANGED <<types, rpc, refs, muts, lastIns, written,
                   vlive, ext, amuts, vsrc, extW, cellVars, allocVars, execVars, eventVars, vecVars, regVars, builderVars>>

\* Drop for a RefMut of an aliased entry: release_mutable, whose flag only
\* the owner of the view can reach
view_drop_RefMut(i) ==
    /\ CanDrop(rpc[ViewThread].at)
    /\ amuts[i] > 0
    /\ amuts' = [amuts EXCEPT ![i] = @ - 1]
    /\ IF vrefs[i].flag = FLAG_MAX
       THEN /\ vrefs' = [vrefs EXCEPT ![i].flag = ReleaseMutableStore]
            /\ rpc' = rpc
            /\ rret' = RReturned(ViewThread, "drop_RefMut", vrefs[i].key, "Ok", 0)
       ELSE /\ vrefs' = vrefs
            /\ rpc' = [rpc EXCEPT ![ViewThread] = RPanicked]
            /\ rret' = RReturned(ViewThread, "drop_RefMut", vrefs[i].key, "panic", 0)
    /\ UNCHANGED <<types, refs, muts, lastIns, written,
                   vlive, ext, arefs, vsrc, extW, cellVars, allocVars, execVars, eventVars, vecVars, regVars, builderVars>>

\* Live Ref guards of the aliased entry of type k
AliasRefs(k) == IF FindRef(k) = 0 THEN 0 ELSE arefs[FindRef(k)]

\* The tuples of references a view is built from, with the variables' values
RefTuples == UNION {[1..n -> Keys] : n \in 1..MaxRefs}
ValTuples == UNION {[1..n -> ExtValues] : n \in 1..MaxRefs}

\* The container used through a view by the thread that owns it
ViewNext ==
    \/ \E k \in Keys, v \in OwnedValues : ~vlive /\ insert(ViewThread, k, v)
    \/ \E ks \in RefTuples, vs \in ValTuples : view_new(ks, vs)
    \/ view_drop
    \/ \E k \in Keys : refs[ViewThread][k] < MaxGuards /\ AliasRefs(k) < MaxGuards /\ view_try_get(k)
    \/ \E k \in Keys : refs[ViewThread][k] < MaxGuards /\ AliasRefs(k) < MaxGuards /\ view_get(k)
    \/ \E k \in Keys : view_try_get_mut(k)
    \/ \E k \in Keys : view_get_mut(k)
    \/ \E i \in ExtVars, v \in Values : view_deref_mut(i, v)
    \/ \E i \in ExtVars : view_drop_Ref(i)
    \/ \E i \in ExtVars : view_drop_RefMut(i)
    \/ obtain_immutable_cas(ViewThread)
    \/ \E k \in Keys : drop_Ref(ViewThread, k)
    \/ \E k \in Keys : release_mutable_assert(ViewThread, k)
    \/ release_mutable_store(ViewThread)

\* The container shared by the threads: ViewThread borrows through a view,
\* the others borrow from the container itself
SharedViewNext ==
    \/ \E k \in Keys, v \in OwnedValues : ~vlive /\ insert(ViewThread, k, v)
    \/ \E k \in Keys, v \in ExtValues : view_new(<<k>>, <<v>>)
    \/ view_drop
    \/ \E k \in Keys : refs[ViewThread][k] < MaxGuards /\ AliasRefs(k) < MaxGuards /\ view_try_get(k)
    \/ \E k \in Keys : view_try_get_mut(k)
    \/ \E i \in ExtVars : view_drop_Ref(i)
    \/ \E i \in ExtVars : view_drop_RefMut(i)
    \/ \E t \in DirectThreads, k \in Keys : refs[t][k] < MaxGuards /\ try_get(t, k)
    \/ \E t \in DirectThreads, k \in Keys : try_get_mut(t, k)
    \/ \E t \in Threads : obtain_immutable_cas(t)
    \/ \E t \in Threads : obtain_immutable_load(t)
    \/ \E t \in Threads, k \in Keys : drop_Ref(t, k)
    \/ \E t \in Threads, k \in Keys : release_mutable_assert(t, k)
    \/ \E t \in Threads : release_mutable_store(t)

\* ============================================================ EntityIndexAllocator
\* usize arithmetic of allocated(), scaled like the flag words
UsizeModulus == FlagModulus

\* VecDeque::pop_front / push_back
PopFront_Newest(q) == q[Len(q)]
PopFront(q) == Head(q)
RestAfterPop_Keep(q) == q
RestAfterPop(q) == Tail(q)
PushBack(q, x) == Append(q, x)

ANoCall == [op |-> "none", value |-> 0, free0 |-> << >>, next0 |-> 0]
AReturned(o, v) == [op |-> o, value |-> v, free0 |-> freeq, next0 |-> next]

\* EntityIndexAllocator::new
AllocInit ==
    /\ freeq = << >>
    /\ next = 0
    /\ aret = ANoCall
    /\ live = {}

\* EntityIndexAllocator::alloc
alloc ==
    /\ IF freeq # << >>
       THEN /\ aret' = AReturned("alloc", PopFront(freeq))
            /\ freeq' = RestAfterPop(freeq)
            /\ next' = next
       ELSE /\ aret' = AReturned("alloc", (next + 1) - 1)
            /\ next' = next + 1
            /\ freeq' = freeq
    /\ live' = live \cup {aret'.value}
    /\ UNCHANGED <<cellVars, resVars, viewVars, execVars, eventVars, vecVars, regVars, builderVars>>

\* EntityIndexAllocator::free
free(index) ==
    /\ freeq' = PushBack(freeq, index)
    /\ aret' = AReturned("free", index)
    /\ live' = live \ {index}
    /\ UNCHANGED <<next, cellVars, resVars, viewVars, execVars, eventVars, vecVars, regVars, builderVars>>

\* EntityIndexAllocator::allocated: a usize subtraction, which panics in a
\* build with overflow checks and wraps in one without when the queue is
\* longer than the counter
AllocatedValue_NoQueue == next
AllocatedValue == (next - Len(freeq)) % UsizeModulus
AllocatedUnderflows == next < Len(freeq)

allocated ==
    /\ \/ aret' = AReturned("allocated", AllocatedValue)
       \/ AllocatedUnderflows /\ aret' = AReturned("allocated_panic", 0)
    /\ UNCHANGED <<freeq, next, live, cellVars, resVars, viewVars, execVars, eventVars, vecVars, regVars, builderVars>>

\* The indices a caller can name
Indices == 0..(MaxNext - 1)

\* Any sequence of calls
AllocNext ==
    \/ next < MaxNext /\ alloc
    \/ \E i \in Indices : Len(freeq) < MaxFree /\ free(i)
    \/ allocated

\* The sequences of calls that free only allocated indices, each once
AllocContractNext ==
    \/ next < MaxNext /\ alloc
    \/ \E i \in live : free(i)
    \/ allocated

\* ============================================================ Executor
\* Systems and handlers are the embedding application's code: each kind
\* stands for a body that makes a fixed sequence of trigger / trigger_batched
\* calls on the context it is given.
EventTypes == {"EventA", "EventB", "EventC"}
SystemKinds == {"sysAB", "sysCA"}
HandlerKinds == {"onA_emitB", "onA", "onB_emitC", "onC"}

\* The event type a handler is registered for (RawEventHandler::event_type)
HandlerType(kind) ==
    CASE kind = "onA_emitB" -> "EventA"
      [] kind = "onA" -> "EventA"
      [] kind = "onB_emitC" -> "EventB"
      [] kind = "onC" -> "EventC"

Call(c, e, evs) == [call |-> c, etype |-> e, events |-> evs]

SystemScript(kind) ==
    CASE kind = "sysAB" -> << Call("trigger", "EventA", <<1>>),
                              Call("trigger", "EventB", <<2>>),
                              Call("trigger_batched", "EventA", <<3, 4>>) >>
      [] kind = "sysCA" -> << Call("trigger_batched", "EventC", << >>),
                              Call("trigger", "EventA", <<5>>) >>

\* with the handler of EventC emitting EventA the emission graph has the
\* cycle EventA -> EventB -> EventC -> EventA
HandlerScript_Cyclic(kind) ==
    CASE kind = "onA_emitB" -> << Call("trigger", "EventB", <<6>>) >>
      [] kind = "onA" -> << >>
      [] kind = "onB_emitC" -> << Call("trigger", "EventC", <<7>>) >>
      [] kind = "onC" -> << Call("trigger", "EventA", <<8>>) >>
HandlerScript(kind) ==
    CASE kind = "onA_emitB" -> << Call("trigger", "EventB", <<6>>) >>
      [] kind = "onA" -> << >>
      [] kind = "onB_emitC" -> << Call("trigger", "EventC", <<7>>) >>
      [] kind = "onC" -> << >>

\* EventStore::default
EmptyStore == [e \in {} |-> << >>]

\* EventStore::extend: entry(TypeId::of::<E>()).or_insert_with(ErasedVec::new)
\* .extend(events)
extend_OneBucket(store, e, events) ==
    [x \in DOMAIN store \cup {e} |-> (IF x \in DOMAIN store THEN store[x] ELSE << >>) \o events]
extend(store, e, events) ==
    [x \in DOMAIN store \cup {e} |->
        IF x = e THEN (IF e \in DOMAIN store THEN store[e] ELSE << >>) \o events
        ELSE store[x]]

\* SystemCtx::trigger_batched and SystemCtx::trigger
trigger_batched(store, e, events) == extend(store, e, events)
trigger(store, e, event) == trigger_batched(store, e, <<event>>)

\* The events a body emits are told apart by the invocation that emits them
Tagged(events, inv) == [n \in 1..Len(events) |-> [v |-> events[n], by |-> inv]]
Vals(batch) == [n \in 1..Len(batch) |-> batch[n].v]
Tags(batch) == [n \in 1..Len(batch) |-> batch[n].by]

\* The context after the body of invocation inv made the calls of script on it
RECURSIVE RunScript(_, _, _)
RunScript(script, store, inv) ==
    IF script = << >> THEN store
    ELSE LET c == Head(script) IN
         RunScript(Tail(script),
                   IF c.call = "trigger" THEN trigger(store, c.etype, Tagged(c.events, inv)[1])
                   ELSE trigger_batched(store, c.etype, Tagged(c.events, inv)),
                   inv)

\* Pool::new(128, || SystemCtxInner::default())
PoolNew == [n \in 1..PoolCap |-> EmptyStore]

\* Pool::pull: a pooled context if there is one, a new one made by the
\* closure given to Pool::new if there is none; it neither waits nor fails
CanPull_NonEmpty(pool) == pool # << >>
CanPull(pool) == TRUE
Pulled(pool) == IF pool # << >> THEN pool[Len(pool)] ELSE EmptyStore
PoolAfterPull(pool) == IF pool # << >> THEN SubSeq(pool, 1, Len(pool) - 1) ELSE pool

\* Drop for Reusable: the context goes back to the pool as it is
Attach(pool, ctx) == Append(pool, ctx)

\* Which context a pull yields: the pooled one, or one that did not exist
\* before.  The contexts of a new pool are told apart by their position.
PoolIds == [n \in 1..PoolCap |-> n]
FreshId(ids, out) ==
    LET used == {ids[n] : n \in 1..Len(ids)} \cup {out[n] : n \in 1..Len(out)} \cup {PoolCap} IN
    1 + CHOOSE m \in used : \A x \in used : x <= m
PulledId(ids, out) == IF ids # << >> THEN ids[Len(ids)] ELSE FreshId(ids, out)

\* handle: the context given to handler.handle and to the handle_events that
\* follows is the one just pulled, not the one whose bucket is dispatched
HandlerCtx_Drained(pulled, drained) == drained
HandlerCtx(pulled, drained) == pulled

\* event_vec.clear() of handle_events
BucketClear_Keep(b) == b
BucketClear(b) == << >>

\* Vec::push of add_system_boxed, SmallVec::push of insert_raw
AddSystem(ss, s) == Append(ss, s)
insert_raw_Front(hs, h) == <<h>> \o hs
insert_raw(hs, h) == Append(hs, h)

\* Frames of the call stack of execute
Frame(k, i, e, b, st, rem, inv, owed, disp) ==
    [kind |-> k, i |-> i, etype |-> e, batch |-> b, store |-> st,
     remaining |-> rem, inv |-> inv, owed |-> owed, disp |-> disp]
ExecFrame(i) == Frame("execute", i, "-", << >>, EmptyStore, {}, 0, 0, 0)
HandleFrame(e, b, inv, disp) == Frame("handle", 1, e, b, EmptyStore, {}, inv, 0, disp)

\* The handlers registered for the types of S; as a history, the handler
\* invocations the events queued in store call for
RECURSIVE SumLens(_, _)
SumLens(f, S) ==
    IF S = {} THEN 0
    ELSE LET x == CHOOSE y \in S : TRUE IN Len(f[x]) + SumLens(f, S \ {x})
Owed(store) == SumLens(event_handlers, {e \in DOMAIN store : Len(store[e]) > 0})

\* handle_events(ctx): the iteration over the buckets of ctx
DrainFrame(store, inv) == Frame("drain", 0, "-", << >>, store, DOMAIN store, inv, Owed(store), 0)

\* execute: self.handle_events(resources, world, &mut ctx) after system.run
SystemFrames_NoDrain(store, inv) == << >>
SystemFrames(store, inv) == <<DrainFrame(store, inv)>>

\* handle: executor.handle_events(resources, world, &mut ctx) after handler.handle
HandlerFrames_NoDrain(store, inv) == << >>
HandlerFrames(store, inv) == <<DrainFrame(store, inv)>>

\* for system in &self.systems
NextSystem_Skip(i) == i + 2
NextSystem(i) == i + 1

\* if let Some(handlers) = self.handlers.get(&event_type): the handlers
\* registered for the type, none if the map has no entry for it
Registered_OrAny(hs, e) ==
    IF hs[e] # << >> \/ \A x \in DOMAIN hs : hs[x] = << >> THEN hs[e]
    ELSE hs[CHOOSE x \in DOMAIN hs : hs[x] # << >>]
Registered(hs, e) == hs[e]

\* handlers.iter().for_each
NextHandler_Skip(i) == i + 2
NextHandler(i) == i + 1

\* Entries of the history of invocations: an invocation with the batch it is
\* given and the context pulled for it, and the return of a context
Enter(what, x, e, b, parent, disp) ==
    [ev |-> "enter", what |-> what, kind |-> x.kind, reg |-> x.reg, etype |-> e,
     batch |-> Vals(b), by |-> Tags(b), parent |-> parent, disp |-> disp,
     id |-> Len(log) + 1, owed |-> 0, fresh |-> (system_ctxs = << >>)]
Exit(inv, owed) ==
    [ev |-> "exit", what |-> "ctx", kind |-> "-", reg |-> 0, etype |-> "-",
     batch |-> << >>, by |-> << >>, parent |-> 0, disp |-> 0, id |-> inv, owed |-> owed,
     fresh |-> FALSE]

Top == stack[Len(stack)]
Below == SubSeq(stack, 1, Len(stack) - 1)

\* Executor::new
ExecInit ==
    /\ systems = << >>
    /\ event_handlers = [e \in EventTypes |-> << >>]
    /\ system_ctxs = PoolNew
    /\ stack = << >>
    /\ log = << >>
    /\ phase = "setup"
    /\ pool0 = PoolCap
    /\ ctx_ids = PoolIds
    /\ out_ids = << >>

\* Executor::add_system / add_system_boxed
add_system(kind) ==
    /\ phase # "executing"
    /\ systems' = AddSystem(systems, [kind |-> kind, reg |-> Len(systems) + 1])
    /\ phase' = "setup"
    /\ log' = << >>
    /\ UNCHANGED <<event_handlers, system_ctxs, stack, pool0, ctx_ids, out_ids>>
    /\ UNCHANGED <<nonExecVars, eventVars>>

\* Executor::add_handler / add_handler_boxed -> EventHandlerStore::insert_raw
add_handler(kind) ==
    /\ phase # "executing"
    /\ LET e == HandlerType(kind) IN
        event_handlers' = [event_handlers EXCEPT
            ![e] = insert_raw(@, [kind |-> kind, reg |-> Len(@) + 1])]
    /\ phase' = "setup"
    /\ log' = << >>
    /\ UNCHANGED <<systems, system_ctxs, stack, pool0, ctx_ids, out_ids>>
    /\ UNCHANGED <<nonExecVars, eventVars>>

\* Executor::execute is called
execute_begin ==
    /\ phase # "executing"
    /\ phase' = "executing"
    /\ stack' = <<ExecFrame(1)>>
    /\ log' = << >>
    /\ pool0' = Len(system_ctxs)
    /\ UNCHANGED <<systems, event_handlers, system_ctxs, ctx_ids, out_ids>>
    /\ UNCHANGED <<nonExecVars, eventVars>>

\* execute: one iteration of the loop up to the call of handle_events
system_run ==
    /\ stack # << >>
    /\ Top.kind = "execute"
    /\ Top.i <= Len(systems)
    /\ CanPull(system_ctxs)
    /\ LET s == systems[Top.i]
           store == RunScript(SystemScript(s.kind), Pulled(system_ctxs), Len(log) + 1) IN
        /\ log' = Append(log, Enter("system", s, "-", << >>, 0, 0))
        /\ stack' = Append(Below, [Top EXCEPT !.i = NextSystem(@)])
                        \o SystemFrames(store, Len(log) + 1)
    /\ system_ctxs' = PoolAfterPull(system_ctxs)
    /\ ctx_ids' = PoolAfterPull(ctx_ids)
    /\ out_ids' = Append(out_ids, PulledId(ctx_ids, out_ids))
    /\ UNCHANGED <<systems, event_handlers, phase, pool0>>
    /\ UNCHANGED <<nonExecVars, eventVars>>

\* execute: the loop is over
execute_end ==
    /\ stack # << >>
    /\ Top.kind = "execute"
    /\ Top.i > Len(systems)
    /\ stack' = Below
    /\ phase' = "executed"
    /\ UNCHANGED <<systems, event_handlers, system_ctxs, log, pool0, ctx_ids, out_ids>>
    /\ UNCHANGED <<nonExecVars, eventVars>>

\* handle_events: one iteration of the loop over the buckets, which the map
\* yields in no particular order, up to the call of event_handlers.handle
handle_events_next(e) ==
    /\ stack # << >>
    /\ Top.kind = "drain"
    /\ e \in Top.remaining
    /\ IF Len(Top.store[e]) = 0
       THEN stack' = Append(Below, [Top EXCEPT !.remaining = @ \ {e}])
       ELSE stack' = Append(stack, HandleFrame(e, Top.store[e], Top.inv, Len(log)))
    /\ UNCHANGED <<systems, event_handlers, system_ctxs, log, phase, pool0, ctx_ids, out_ids>>
    /\ UNCHANGED <<nonExecVars, eventVars>>

\* handle_events returns and its caller drops the context, which goes back
\* to the pool
handle_events_end ==
    /\ stack # << >>
    /\ Top.kind = "drain"
    /\ Top.remaining = {}
    /\ stack' = Below
    /\ system_ctxs' = Attach(system_ctxs, Top.store)
    /\ ctx_ids' = Attach(ctx_ids, out_ids[Len(out_ids)])
    /\ out_ids' = SubSeq(out_ids, 1, Len(out_ids) - 1)
    /\ log' = Append(log, Exit(Top.inv, Top.owed))
    /\ UNCHANGED <<systems, event_handlers, phase, pool0>>
    /\ UNCHANGED <<nonExecVars, eventVars>>

\* EventHandlerStore::handle: one iteration of handlers.iter().for_each up to
\* the call of executor.handle_events
handler_handle ==
    /\ Len(stack) >= 2
    /\ Top.kind = "handle"
    /\ Top.i <= Len(Registered(event_handlers, Top.etype))
    /\ CanPull(system_ctxs)
    /\ LET h == Registered(event_handlers, Top.etype)[Top.i]
           store == RunScript(HandlerScript(h.kind), Pulled(system_ctxs), Len(log) + 1)
           drain == stack[Len(stack) - 1] IN
        /\ log' = Append(log, Enter("handler", h, Top.etype, Top.batch, Top.inv, Top.disp))
        /\ stack' = SubSeq(stack, 1, Len(stack) - 2)
                        \o << [drain EXCEPT !.owed = @ - 1], [Top EXCEPT !.i = NextHandler(@)] >>
                        \o HandlerFrames(store, Len(log) + 1)
    /\ system_ctxs' = PoolAfterPull(system_ctxs)
    /\ ctx_ids' = PoolAfterPull(ctx_ids)
    /\ out_ids' = Append(out_ids, HandlerCtx(PulledId(ctx_ids, out_ids), out_ids[Len(out_ids)]))
    /\ UNCHANGED <<systems, event_handlers, phase, pool0>>
    /\ UNCHANGED <<nonExecVars, eventVars>>

\* EventHandlerStore::handle returns and handle_events clears the bucket
handle_end ==
    /\ Len(stack) >= 2
    /\ Top.kind = "handle"
    /\ Top.i > Len(Registered(event_handlers, Top.etype))
    /\ LET drain == stack[Len(stack) - 1] IN
        stack' = SubSeq(stack, 1, Len(stack) - 2)
                    \o << [drain EXCEPT !.store[Top.etype] = BucketClear(@),
                                        !.remaining = @ \ {Top.etype}] >>
    /\ UNCHANGED <<systems, event_handlers, system_ctxs, log, phase, pool0, ctx_ids, out_ids>>
    /\ UNCHANGED <<nonExecVars, eventVars>>

ExecNext ==
    \/ \E kind \in SystemKinds : Len(systems) < MaxSystems /\ add_system(kind)
    \/ \E kind \in HandlerKinds :
            SumLens(event_handlers, EventTypes) < MaxHandlers /\ add_handler(kind)
    \/ execute_begin
    \/ system_run
    \/ execute_end
    \/ \E e \in EventTypes : handle_events_next(e)
    \/ handle_events_end
    \/ handler_handle
    \/ handle_end

\* --- a system or a handler panics
\* The calls a body made before it panicked
Prefix(script, k) == SubSeq(script, 1, k)

\* History: the events a context holds when an execute call is unwound are
\* marked as emitted before the abort
AbortTag(store) ==
    [e \in DOMAIN store |-> [n \in 1..Len(store[e]) |-> [store[e][n] EXCEPT !.by = 0]]]

\* Unwinding drops the contexts of the frames, the innermost first, and each
\* goes back to the pool as it is
RECURSIVE Unwound(_, _)
Unwound(pool, frames) ==
    IF frames = << >> THEN pool
    ELSE LET f == frames[Len(frames)] IN
         Unwound(IF f.kind = "drain" THEN Attach(pool, AbortTag(f.store)) ELSE pool,
                 SubSeq(frames, 1, Len(frames) - 1))
UnwoundIds(ids, out) == ids \o [n \in 1..Len(out) |-> out[Len(out) + 1 - n]]

\* The events queued in the pooled contexts
RECURSIVE Queued(_)
Queued(pool) ==
    IF pool = << >> THEN 0 ELSE SumLens(Head(pool), DOMAIN Head(pool)) + Queued(Tail(pool))

\* execute: system.run panics after the first k calls of its body; the
\* panic leaves execute, the context is dropped on the way
system_panic(k) ==
    /\ stack # << >>
    /\ Top.kind = "execute"
    /\ Top.i <= Len(systems)
    /\ LET s == systems[Top.i]
           store == RunScript(Prefix(SystemScript(s.kind), k), Pulled(system_ctxs), Len(log) + 1) IN
        /\ k \in 0..Len(SystemScript(s.kind))
        /\ log' = Append(log, Enter("system", s, "-", << >>, 0, 0))
        /\ system_ctxs' = Unwound(Attach(PoolAfterPull(system_ctxs), AbortTag(store)), stack)
    /\ ctx_ids' = UnwoundIds(Attach(PoolAfterPull(ctx_ids), PulledId(ctx_ids, out_ids)), out_ids)
    /\ out_ids' = << >>
    /\ stack' = << >>
    /\ phase' = "aborted"
    /\ UNCHANGED <<systems, event_handlers, pool0>>
    /\ UNCHANGED <<nonExecVars, eventVars>>

\* handle: handler.handle panics after the first k calls of its body; the
\* panic leaves every handle_events, handle and execute on the stack, no
\* bucket under dispatch is cleared, every context is dropped on the way
handler_panic(k) ==
    /\ Len(stack) >= 2
    /\ Top.kind = "handle"
    /\ Top.i <= Len(Registered(event_handlers, Top.etype))
    /\ LET h == Registered(event_handlers, Top.etype)[Top.i]
           store == RunScript(Prefix(HandlerScript(h.kind), k), Pulled(system_ctxs), Len(log) + 1) IN
        /\ k \in 0..Len(HandlerScript(h.kind))
        /\ log' = Append(log, Enter("handler", h, Top.etype, Top.batch, Top.inv, Top.disp))
        /\ system_ctxs' = Unwound(Attach(PoolAfterPull(system_ctxs), AbortTag(store)), stack)
    /\ ctx_ids' = UnwoundIds(Attach(PoolAfterPull(ctx_ids),
                                    HandlerCtx(PulledId(ctx_ids, out_ids), out_ids[Len(out_ids)])),
                             out_ids)
    /\ out_ids' = << >>
    /\ stack' = << >>
    /\ phase' = "aborted"
    /\ UNCHANGED <<systems, event_handlers, pool0>>
    /\ UNCHANGED <<nonExecVars, eventVars>>

\* No event of an aborted execute call is left in a context
StaleIn(batch) == \E n \in 1..Len(batch) : batch[n].by = 0
NoStale ==
    /\ Queued(system_ctxs) = 0
    /\ \A i \in 1..Len(stack) :
          /\ ~StaleIn(stack[i].batch)
          /\ \A e \in DOMAIN stack[i].store : ~StaleIn(stack[i].store[e])

\* An Executor with one system, whose bodies may panic, the application
\* catching the panic and calling execute again; a body panics only when no
\* event of an earlier abort is left
ExecAbortNext ==
    \/ \E kind \in SystemKinds : systems = << >> /\ add_system(kind)
    \/ \E kind \in HandlerKinds :
            SumLens(event_handlers, EventTypes) < MaxHandlers - 1 /\ add_handler(kind)
    \/ execute_begin
    \/ system_run
    \/ execute_end
    \/ \E e \in EventTypes : handle_events_next(e)
    \/ handle_events_end
    \/ handler_handle
    \/ handle_end
    \/ \E k \in 0..3 : NoStale /\ system_panic(k)
    \/ \E k \in 0..1 : NoStale /\ handler_panic(k)

\* ============================================================ EventHandlers
\* SmallVec::push of EventHandlers::add
HandlerVecPush(hs, h) == Append(hs, h)

TNoCall == [op |-> "none", etype |-> "none", event |-> 0, values0 |-> << >>]
TReturned(op, e, event) == [op |-> op, etype |-> e, event |-> event, values0 |-> tvalues]

\* EventHandlers::new; the resource and the component hold no event's value
EventsInit ==
    /\ ehandlers = [e \in EventTypes |-> << >>]
    /\ tlog = << >>
    /\ tvalues = [resource |-> 0, component |-> 0]
    /\ tret = TNoCall

\* EventHandlers::add (and with)
EventHandlers_add(kind) ==
    /\ LET e == HandlerType(kind) IN
        ehandlers' = [ehandlers EXCEPT
            ![e] = HandlerVecPush(@, [kind |-> kind, reg |-> Len(@) + 1])]
    /\ tlog' = << >>
    /\ tret' = TReturned("add", HandlerType(kind), 0)
    /\ UNCHANGED <<tvalues, execVars, nonExecVars>>

\* self.0.get(&TypeId::of::<E>()): the handlers registered for the type
HandlersOf_Any(hs, e) ==
    LET S == {x \in EventTypes : hs[x] # << >>} IN
    IF S = {} THEN << >> ELSE hs[CHOOSE x \in S : TRUE]
HandlersOf(hs, e) == hs[e]

\* The handler of tests/events.rs: *resource = *event, then the component
\* of the entity is set to the resource
HandlerBody(values, event) == [resource |-> event, component |-> event]

\* for handler in handlers { handler.handle(resources, world, event) }
RECURSIVE Handled(_, _, _)
Handled(values, hs, event) ==
    IF hs = << >> THEN values
    ELSE Handled(HandlerBody(values, event), Tail(hs), event)

\* EventHandlers::trigger: every handler of the type is called with the event
EventHandlers_trigger(e, event) ==
    /\ LET hs == HandlersOf(ehandlers, e) IN
        /\ tlog' = [n \in 1..Len(hs) |->
                        [kind |-> hs[n].kind, reg |-> hs[n].reg,
                         etype |-> e, event |-> event]]
        /\ tvalues' = Handled(tvalues, hs, event)
    /\ tret' = TReturned("trigger", e, event)
    /\ UNCHANGED <<ehandlers, execVars, nonExecVars>>

EventValues == {1, 2}
EventsNext ==
    \/ \E kind \in HandlerKinds :
            SumLens(ehandlers, EventTypes) < MaxHandlers /\ EventHandlers_add(kind)
    \/ \E e \in EventTypes, event \in EventValues : EventHandlers_trigger(e, event)

\* The application dispatches its events through an Executor or through an
\* EventHandlers
DispatchNext ==
    \/ EventsInit /\ ExecNext
    \/ ExecInit /\ EventsNext

\* ============================================================ ErasedVec
\* Layout::new::<T>() of the types a vector is constructed with
Layouts == {"i32", "u64"}
ElemValues == {1, 2}

\* The pointer of a Vec that owns no memory (Vec::new), and the allocations
\* the allocator hands out
DANGLING == 0
AllocIds == {1, 2}

NoVec == [ptr |-> DANGLING, capacity |-> 0, len |-> 0, layout |-> "-"]
ENoCall == [op |-> "none", vec0 |-> NoVec, mem0 |-> << >>, heap0 |-> {}, n |-> 0,
            torn |-> 0, freed |-> << >>]
\* a call of op with n values that tore down torn elements and passed the
\* pointers of freed to the allocator's dealloc
EReturned(op, n, torn, freed) ==
    [op |-> op, vec0 |-> evec, mem0 |-> emem, heap0 |-> eheap, n |-> n,
     torn |-> torn, freed |-> freed]

\* ErasedVec::clear: self.len = 0
Cleared_Reset(v) == [v EXCEPT !.len = 0, !.capacity = 0, !.ptr = DANGLING]
Cleared(v) == [v EXCEPT !.len = 0]

\* The values of the vector: the first len slots of its allocation
Elements == SubSeq(emem, 1, evec.len)

VecInit ==
    /\ evec = NoVec
    /\ estate = "none"
    /\ emem = << >>
    /\ eheap = {}
    /\ eret = ENoCall
    /\ ecleared = FALSE
    /\ eappended = << >>

\* ErasedVec::new::<T>(): the parts of an empty Vec<T>, which owns no memory
ErasedVec_new(T) ==
    /\ estate # "live"
    /\ evec' = [ptr |-> DANGLING, capacity |-> 0, len |-> 0, layout |-> T]
    /\ estate' = "live"
    /\ emem' = << >>
    /\ eret' = EReturned("new", 0, 0, << >>)
    /\ ecleared' = FALSE
    /\ eappended' = << >>
    /\ UNCHANGED <<eheap, nonVecVars>>

\* reapply: self.len = vec.len(), the length of the Vec after n values were
\* appended to it
ReappliedLen_Unchanged(len, n) == len
ReappliedLen(len, n) == len + n

\* as_vec, Vec::push / Vec::extend, reapply: the values are written behind
\* the first len slots; the Vec reallocates only when its capacity does not
\* suffice, to a capacity of its choosing, and the allocator either grows
\* the allocation in place or moves it
VecAppend(op, values) ==
    LET need == ReappliedLen(evec.len, Len(values))
        slots(c) == [i \in 1..c |-> IF i <= evec.len THEN emem[i]
                                     ELSE IF i <= need THEN values[i - evec.len]
                                     ELSE IF i <= evec.capacity THEN emem[i] ELSE 0] IN
    /\ estate = "live"
    /\ IF need <= evec.capacity
       THEN /\ evec' = [evec EXCEPT !.len = need]
            /\ emem' = slots(evec.capacity)
            /\ eheap' = eheap
       ELSE \E c \in need..MaxCap, p \in AllocIds :
                /\ p \notin eheap \/ p = evec.ptr
                /\ evec' = [evec EXCEPT !.ptr = p, !.capacity = c, !.len = need]
                /\ emem' = slots(c)
                /\ eheap' = (eheap \ {evec.ptr}) \cup {p}
    /\ eret' = EReturned(op, Len(values), 0, << >>)
    /\ eappended' = eappended \o values
    /\ UNCHANGED <<estate, ecleared, nonVecVars>>

\* ErasedVec::push::<T>(value) and ErasedVec::extend::<T>(iter)
push(value) == VecAppend("push", <<value>>)
extend_vec(values) == VecAppend("extend", values)

\* ErasedVec::clear
clear ==
    /\ estate = "live"
    /\ evec' = Cleared(evec)
    /\ eret' = EReturned("clear", 0, 0, << >>)
    /\ ecleared' = (ecleared \/ evec.capacity > 0)
    /\ eappended' = << >>
    /\ UNCHANGED <<estate, emem, eheap, nonVecVars>>

\* ErasedVec::drop_as::<T>(): the Vec<T> made of the parts is dropped, which
\* tears down its len elements and frees its memory if it owns any; the
\* ErasedVec itself is forgotten
drop_as ==
    /\ estate = "live"
    /\ estate' = "dropped"
    /\ eheap' = IF evec.capacity > 0 THEN eheap \ {evec.ptr} ELSE eheap
    /\ eret' = EReturned("drop_as", 0, evec.len,
                         IF evec.capacity > 0 THEN <<evec.ptr>> ELSE << >>)
    /\ UNCHANGED <<evec, emem, ecleared, eappended, nonVecVars>>

\* Drop for ErasedVec: dealloc(ptr, layout repeated capacity times)
ErasedVec_drop ==
    /\ estate = "live"
    /\ estate' = "dropped"
    /\ eheap' = eheap \ {evec.ptr}
    /\ eret' = EReturned("drop", 0, 0, <<evec.ptr>>)
    /\ UNCHANGED <<evec, emem, ecleared, eappended, nonVecVars>>

\* The batches an extend is called with
Batches == UNION {[1..n -> ElemValues] : n \in 0..2}

VecNext ==
    \/ \E T \in Layouts : ErasedVec_new(T)
    \/ \E value \in ElemValues : evec.len + 1 <= MaxCap /\ push(value)
    \/ \E values \in Batches : evec.len + Len(values) <= MaxCap /\ extend_vec(values)
    \/ clear
    \/ drop_as
    \/ ErasedVec_drop

\* ============================================================ build_executor
\* The registrations are shared by the threads of the application (each is
\* behind a Mutex); a call that panics ends, and the application goes on in
\* the threads that did not make it or that caught the panic.
BIdle == [at |-> "idle", i |-> 0, systems |-> << >>, n |-> 0, later |-> FALSE]

RegInit ==
    /\ registry = << >>
    /\ bcall = [t \in Threads |-> BIdle]
    /\ ncalls = 0
    /\ bret = << >>

\* inventory::submit!(SystemRegistration(Mutex::new(Some(system)))): runs
\* before main, so before any call of build_executor
submit(kind) ==
    /\ ncalls = 0
    /\ registry' = Append(registry, [kind |-> kind, some |-> TRUE, poisoned |-> FALSE])
    /\ UNCHANGED <<bcall, ncalls, bret, nonRegVars>>

\* How a call ended: n counts the calls in the order they began, alone says
\* that no other call had begun when it ended, and later that the call began
\* after the first call had ended alone
BReturned(t, r, m, ss) ==
    [n |-> bcall[t].n, later |-> bcall[t].later, alone |-> (ncalls = bcall[t].n),
     result |-> r, msg |-> m, systems |-> ss]

\* build_executor is called: Executor::new()
build_executor_begin(t) ==
    /\ bcall[t].at = "idle"
    /\ ncalls' = ncalls + 1
    /\ bcall' = [bcall EXCEPT ![t] =
                    [at |-> "loop", i |-> 1, systems |-> << >>, n |-> ncalls + 1,
                     later |-> (\E x \in 1..Len(bret) : bret[x].n = 1 /\ bret[x].alone)]]
    /\ UNCHANGED <<registry, bret, nonRegVars>>

\* Option::take of the registration
Take(r) == [r EXCEPT !.some = FALSE]

\* One iteration of the loop: system.0.lock().unwrap().take().expect(..).
\* unwrap panics if the mutex is poisoned; expect panics if the system was
\* taken, and as the guard of the mutex is still alive then, the unwinding
\* poisons the mutex
build_executor_next(t) ==
    /\ bcall[t].at = "loop"
    /\ bcall[t].i <= Len(registry)
    /\ LET i == bcall[t].i
           r == registry[i] IN
        IF r.poisoned
        THEN /\ bret' = Append(bret, BReturned(t, "panic", "PoisonError", << >>))
             /\ bcall' = [bcall EXCEPT ![t] = BIdle]
             /\ registry' = registry
        ELSE IF ~r.some
        THEN /\ bret' = Append(bret, BReturned(t, "panic", "already built executor", << >>))
             /\ bcall' = [bcall EXCEPT ![t] = BIdle]
             /\ registry' = [registry EXCEPT ![i].poisoned = TRUE]
        ELSE /\ bret' = bret
             /\ bcall' = [bcall EXCEPT ![t].i = @ + 1, ![t].systems = AddSystem(@, i)]
             /\ registry' = [registry EXCEPT ![i] = Take(@)]
    /\ UNCHANGED <<ncalls, nonRegVars>>

\* The loop is over: the executor is returned
build_executor_end(t) ==
    /\ bcall[t].at = "loop"
    /\ bcall[t].i > Len(registry)
    /\ bret' = Append(bret, BReturned(t, "Ok", "-", bcall[t].systems))
    /\ bcall' = [bcall EXCEPT ![t] = BIdle]
    /\ UNCHANGED <<registry, ncalls, nonRegVars>>

RegNext ==
    \/ \E kind \in SystemKinds : Len(registry) < MaxSystems /\ submit(kind)
    \/ \E t \in Threads : ncalls < MaxBuilds /\ build_executor_begin(t)
    \/ \E t \in Threads : build_executor_next(t)
    \/ \E t \in Threads : build_executor_end(t)

\* ============================================================ specifications
\* ============================================================ EntityBuilder
ComponentTypes == {"u8", "i32"}
ComponentValues == {1, 2}

\* mem::size_of::<C>()
SizeOf(ty) == IF ty = "u8" THEN 1 ELSE 4

EBNoCall == [op |-> "none", ty |-> "none", value |-> 0, present |-> FALSE,
             len0 |-> 0, cursor0 |-> 0, added0 |-> {}]
EBReturned(op, ty, value, present) ==
    [op |-> op, ty |-> ty, value |-> value, present |-> present,
     len0 |-> Len(component_data), cursor0 |-> cursor, added0 |-> added]

\* EntityBuilder::new (Default): empty vectors, cursor 0; World::new
BuilderInit ==
    /\ components = << >>
    /\ component_data = << >>
    /\ cursor = 0
    /\ built = FALSE
    /\ spawned = << >>
    /\ added = {}
    /\ ebret = EBNoCall

\* ptr.add(offset).cast::<C>().write_unaligned(component): the bytes of the
\* value, each standing for the value it is a byte of
WriteUnaligned(bytes, ty, offset, value) ==
    [i \in 1..Len(bytes) |->
        IF offset < i /\ i <= offset + SizeOf(ty) THEN value ELSE bytes[i]]

\* push_raw(ptr, 1): the value the bytes at the offset make up, 0 if they
\* are not the bytes of one value
ReadAt(bytes, ty, offset) ==
    IF offset + SizeOf(ty) <= Len(bytes)
          /\ \A i \in offset + 1..offset + SizeOf(ty) : bytes[i] = bytes[offset + 1]
    THEN bytes[offset + 1] ELSE 0

\* Vec::reserve on the buffer, whose len is 0: an allocation of capacity c
\* that begins with the bytes of the old one
Reserved(bytes, c) == [i \in 1..c |-> IF i <= Len(bytes) THEN bytes[i] ELSE 0]

\* component_data.iter().find(|(ty, _, _)| *ty == ComponentTypeId::of::<C>())
Find(data, ty) == {n \in 1..Len(data) : data[n].ty = ty /\ \A m \in 1..n - 1 : data[m].ty # ty}

\* EntityBuilder::add (and with): replace the value of a type the builder
\* holds, or write the value at the cursor and push its entry
EntityBuilder_add(ty, value) ==
    /\ ~built
    /\ IF Find(component_data, ty) # {}
       THEN LET n == CHOOSE x \in Find(component_data, ty) : TRUE IN
            /\ components' = WriteUnaligned(components, ty, component_data[n].offset, value)
            /\ UNCHANGED <<component_data, cursor>>
       ELSE LET required_capacity == cursor + SizeOf(ty) IN
            /\ \E c \in required_capacity..MaxBytes :
                    /\ Len(components) >= required_capacity => c = Len(components)
                    /\ components' = WriteUnaligned(Reserved(components, c), ty, cursor, value)
            /\ component_data' = Append(component_data, [ty |-> ty, offset |-> cursor])
            /\ cursor' = cursor + SizeOf(ty)
    /\ added' = {a \in added : a.ty # ty} \cup {[ty |-> ty, value |-> value]}
    /\ ebret' = EBReturned("add", ty, value, Find(component_data, ty) # {})
    /\ UNCHANGED <<built, spawned, nonBuilderVars>>

\* EntityBuilder::build_one: the BuiltEntity borrows the builder
build_one ==
    /\ ~built
    /\ built' = TRUE
    /\ ebret' = EBReturned("build_one", "none", 0, FALSE)
    /\ UNCHANGED <<components, component_data, cursor, spawned, added, nonBuilderVars>>

\* builder.component_data.clear()
ClearedData_Kept(data) == data
ClearedData(data) == << >>

\* BuiltEntity::spawn_in, World::spawn and ComponentSource::write: one
\* entity is given the component at every entry, then the builder is cleared
spawn_in ==
    /\ built
    /\ spawned' = Append(spawned,
            [n \in 1..Len(component_data) |->
                [ty |-> component_data[n].ty,
                 value |-> ReadAt(components, component_data[n].ty, component_data[n].offset)]])
    /\ component_data' = ClearedData(component_data)
    /\ cursor' = 0
    /\ built' = FALSE
    /\ added' = {}
    /\ ebret' = EBReturned("spawn", "none", 0, FALSE)
    /\ UNCHANGED <<components, nonBuilderVars>>

\* A BuiltEntity is dropped without having been spawned
BuiltEntity_drop ==
    /\ built
    /\ built' = FALSE
    /\ ebret' = EBReturned("drop", "none", 0, FALSE)
    /\ UNCHANGED <<components, component_data, cursor, spawned, added, nonBuilderVars>>

BuilderNext ==
    \/ \E ty \in ComponentTypes, value \in ComponentValues : EntityBuilder_add(ty, value)
    \/ build_one
    \/ Len(spawned) < MaxSpawns /\ spawn_in
    \/ BuiltEntity_drop

Init ==
    /\ CellInit /\ ResInit /\ ViewInit /\ AllocInit /\ ExecInit /\ EventsInit
    /\ VecInit /\ RegInit /\ BuilderInit

Next ==
    \/ CellNext
    \/ ResNext
    \/ \E t \in Threads, k \in Keys, v \in Values : deref_mut(t, k, v)
    \/ ViewNext
    \/ SharedViewNext
    \/ AllocNext
    \/ DispatchNext
    \/ VecNext
    \/ RegNext
    \/ BuilderNext

\* Every component, used in any way
Spec == Init /\ [][Next]_vars

\* AtomicRefCell shared by the threads
SpecCell == Init /\ [][CellNext]_vars

\* AtomicRefCell shared by the threads, the flag wrapping as an AtomicU32 does
SpecCellWrap == Init /\ [][CellWrapNext]_vars

\* Executor whose systems and handlers may panic
SpecExecAbort == Init /\ [][ExecAbortNext]_vars

\* An AtomicRefCell and one entry of an OwnedResources side by side, each
\* taking shared-acquire, exclusive-acquire and guard-release operations of
\* one thread, one operation at a time
PairKey == "i32"
PairNext ==
    \/ \E v \in Values : ~Has(PairKey) /\ insert(1, PairKey, v)
    \/ \E t \in SeqThreads : readers[t] < MaxGuards /\ try_borrow(t)
    \/ \E t \in SeqThreads : writers[t] < MaxGuards /\ try_borrow_mut(t)
    \/ \E t \in SeqThreads : release_ref_assert_mask(t)
    \/ \E t \in SeqThreads : release_ref_assert_gt0(t)
    \/ \E t \in SeqThreads : release_ref_fetch_sub(t)
    \/ \E t \in SeqThreads : release_mut(t)
    \/ \E t \in SeqThreads : refs[t][PairKey] < MaxGuards /\ try_get(t, PairKey)
    \/ \E t \in SeqThreads : obtain_immutable_cas(t)
    \/ \E t \in SeqThreads : try_get_mut(t, PairKey)
    \/ \E t \in SeqThreads : drop_Ref(t, PairKey)
    \/ \E t \in SeqThreads : release_mutable_assert(t, PairKey)
    \/ \E t \in SeqThreads : release_mutable_store(t)
SpecPair == Init /\ [][PairNext]_vars

\* OwnedResources shared by the threads
SpecRes == Init /\ [][ResNext]_vars

\* OwnedResources used by one thread
SpecResSeq == Init /\ [][ResSeqNext]_vars

\* OwnedResources used through a RefResources by one thread
SpecView == Init /\ [][ViewNext]_vars

\* OwnedResources shared by the threads, one of them through a RefResources
SpecSharedView == Init /\ [][SharedViewNext]_vars

\* EntityIndexAllocator under any sequence of calls
SpecAlloc == Init /\ [][AllocNext]_vars

\* EntityIndexAllocator under the callers that keep the contract of free
SpecAllocContract == Init /\ [][AllocContractNext]_vars

\* Executor and EventHandlers: registration, execute and trigger calls
SpecExec == Init /\ [][DispatchNext]_vars

\* ErasedVec under any sequence of calls with the construction type
SpecVec == Init /\ [][VecNext]_vars
SpecBuilder == Init /\ [][BuilderNext]_vars

\* The registered systems and the calls of build_executor
SpecRegistry == Init /\ [][RegNext]_vars

\* The threads exercise either the cell or the container, and the scheduler
\* is fair: a thread that is inside a call or inside a drop takes its next
\* atomic step.  Whether an idle thread makes another call is up to it.
CellContinue(t) == release_ref_assert_gt0(t) \/ release_ref_fetch_sub(t)
ResContinue(t) ==
    obtain_immutable_cas(t) \/ obtain_immutable_load(t) \/ release_mutable_store(t)
FairValues == {10}
FairNext ==
    \/ ResInit /\ CellNext
    \/ CellInit /\ \E t \in Threads, k \in Keys, v \in FairValues : insert(t, k, v)
    \/ CellInit /\ ResBorrowNext
Fairness == \A t \in Threads : WF_vars(CellContinue(t)) /\ WF_vars(ResContinue(t))
FairSpec == Init /\ [][FairNext]_vars /\ Fairness

\* execute runs synchronously on the thread of its caller: once called, it
\* takes its next step; when the application registers and when it calls
\* execute is up to it.  Every body returns, and a system is registered once.
ExecStep ==
    \/ system_run
    \/ execute_end
    \/ \E e \in EventTypes : handle_events_next(e)
    \/ handle_events_end
    \/ Len(stack) < MaxDepth /\ handler_handle
    \/ handle_end
FairExecNext ==
    \/ \E kind \in SystemKinds :
            /\ Len(systems) < MaxSystems
            /\ \A n \in 1..Len(systems) : systems[n].kind # kind
            /\ add_system(kind)
    \/ \E kind \in HandlerKinds :
            SumLens(event_handlers, EventTypes) < MaxHandlers /\ add_handler(kind)
    \/ execute_begin
    \/ ExecStep
FairSpecExec == Init /\ [][FairExecNext]_vars /\ WF_vars(ExecStep)

\* ============================================================ properties
\* --- AtomicRefCell (SpecCell)
LiveRefs == SumOver(readers, Threads)
LiveRefMuts == SumOver(writers, Threads)

\* The guards that were live when the call recorded in cret was made: the
\* live ones without the guard that call created.
RefsBefore == LiveRefs - (IF cret.op \in {"try_borrow", "borrow"} /\ cret.result = "Ok" THEN 1 ELSE 0)
RefMutsBefore == LiveRefMuts - (IF cret.op \in {"try_borrow_mut", "borrow_mut"} /\ cret.result = "Ok" THEN 1 ELSE 0)

\* C1: a live AtomicRefMut never coexists with another live guard of the
\* cell, neither an AtomicRef nor a second AtomicRefMut, in any interleaving
\* of try_borrow, try_borrow_mut and guard drops that does not overflow the
\* flag.
C1_ReaderWriterExclusion ==
    LiveRefMuts > 0 => (LiveRefMuts = 1 /\ LiveRefs = 0)

\* An exclusive guard is live and another thread's try_borrow has just failed.
C1_Witness ==
    /\ LiveRefMuts = 1
    /\ cret.op = "try_borrow" /\ cret.result = "MutablyBorrowed"
    /\ writers[cret.thread] = 0

C3_FailsWithMutablyBorrowed ==
    (cret.op \in {"try_borrow", "try_borrow_mut"} /\ RefMutsBefore > 0)
        => cret.result = "MutablyBorrowed"

RefsOn(k) == SumOver([t \in Threads |-> refs[t][k]], Threads)
RefMutsOn(k) == SumOver([t \in Threads |-> muts[t][k]], Threads)
EntriesOf(k) == {e \in types : e.key = k}
NeverInserted(k) == lastIns[k] = 0

\* The guards on rret.key that were live when the call recorded in rret was
\* made: the live ones without the guard that call created.
RRefsBefore ==
    RefsOn(rret.key) - (IF rret.op \in {"try_get", "get"} /\ rret.result = "Ok" THEN 1 ELSE 0)
RRefMutsBefore ==
    RefMutsOn(rret.key) - (IF rret.op \in {"try_get_mut", "get_mut"} /\ rret.result = "Ok" THEN 1 ELSE 0)

\* C5: in every state of every interleaving of try_get, try_get_mut and guard
\* drops, the BorrowFlag of each type-key either equals the number of live Ref
\* guards of the key, no RefMut of it being live, or is the exclusive value
\* u32::max_value() with exactly one live RefMut and no live Ref.
C5_FlagCountsGuards ==
    \A e \in types :
        \/ e.flag = RefsOn(e.key) /\ RefMutsOn(e.key) = 0
        \/ e.flag = FLAG_MAX /\ RefMutsOn(e.key) = 1 /\ RefsOn(e.key) = 0

\* The two threads hold three Ref guards of one key between them while a
\* RefMut of the other key is live and a thread is inside obtain_immutable.
C5_Witness ==
    /\ RefsOn("i32") = 3 /\ \A t \in Threads : refs[t]["i32"] > 0
    /\ RefMutsOn("i64") = 1
    /\ \E t \in Threads : rpc[t].at = "cas"

\* C7: insert(v) followed by get::<T>(), with no insert of T and no write
\* through a RefMut of T in between, yields v, and every entry inserted
\* before stays in the container with its value when another type is
\* inserted.
C7_InsertThenGet ==
    /\ \A k \in Keys : ~NeverInserted(k) =>
            /\ Has(k)
            /\ ~written[k] => ValueOf(k) = lastIns[k]
    /\ (rret.op \in {"get", "try_get"} /\ ~NeverInserted(rret.key)) => rret.result # "NotFound"
    /\ (rret.op \in {"get", "try_get"} /\ rret.result = "Ok" /\ ~written[rret.key])
            => rret.value = lastIns[rret.key]

\* get::<i32>() has just returned the 11 inserted last, while the entry of
\* i64, inserted with 10 and then written to, holds 11 as well.
C7_Witness ==
    /\ rret.op = "get" /\ rret.key = "i32" /\ rret.result = "Ok" /\ rret.value = 11
    /\ lastIns["i32"] = 11 /\ ~written["i32"]
    /\ lastIns["i64"] = 10 /\ written["i64"] /\ ValueOf("i64") = 11

\* C8: insert replaces: the container never holds two entries of one
\* type-key, and right after an insert the one entry of its key holds the
\* inserted value with a free borrow flag, also when it replaced an entry.
C8_InsertReplaces ==
    /\ \A k \in Keys : Cardinality(EntriesOf(k)) <= 1
    /\ rret.op = "insert" =>
            /\ Cardinality(EntriesOf(rret.key)) = 1
            /\ ValueOf(rret.key) = rret.value
            /\ FlagOf(rret.key) = 0

\* An insert has just replaced the entry of its key by another value.
C8_Witness ==
    /\ rret.op = "insert" /\ rret.result = "replaced"
    /\ rret.value = 11 /\ ValueOf(rret.key) = 11
    /\ \E k \in Keys : k # rret.key /\ Has(k)

C10_ConvenienceAbortsWhenCheckedFails ==
    /\ rret.op \in {"get_mut", "try_get_mut"} =>
            (rret.result # "Ok" <=> (~Has(rret.key) \/ RRefsBefore > 0 \/ RRefMutsBefore > 0))
    /\ rret.op \in {"get", "try_get"} =>
            (rret.result # "Ok" <=> (~Has(rret.key) \/ RefMutsOn(rret.key) > 0))
    /\ rret.op \in {"get", "get_mut"} => rret.result \in {"Ok", "panic"}
    /\ rret.op \in {"try_get", "try_get_mut"} => rret.result \in {"Ok", "NotFound", "AlreadyBorrowed"}
    /\ (rret.op = "get_mut" /\ rret.result = "Ok") => muts[rret.thread][rret.key] = 1
    /\ (rret.op = "get" /\ rret.result = "Ok") => refs[rret.thread][rret.key] > 0

\* get_mut has just panicked on a type of which the calling thread itself
\* holds a Ref guard.
C10_Witness ==
    /\ rret.op = "get_mut" /\ rret.result = "panic"
    /\ Has(rret.key) /\ refs[rret.thread][rret.key] > 0

\* --- non-blocking acquisition (FairSpec)
\* No acquisition waits: a thread outside a call can make any attempt, and a
\* thread inside obtain_immutable can take its next step, whatever guards
\* the other threads hold.
NeverWaits ==
    \A t \in Threads :
        /\ cpc[t] = "idle" => ENABLED try_borrow(t) /\ ENABLED try_borrow_mut(t)
        /\ rpc[t].at = "idle" => \A k \in Keys : ENABLED try_get(t, k) /\ ENABLED try_get_mut(t, k)
        /\ rpc[t].at = "cas" => ENABLED obtain_immutable_cas(t)
        /\ rpc[t].at = "load" => ENABLED obtain_immutable_load(t)

\* A conflicting attempt has returned its error while the conflicting guard
\* is still live.
ConflictReturnsAtOnce ==
    /\ cret.result = "MutablyBorrowed" => LiveRefMuts > 0
    /\ cret.result = "ImmutablyBorrowed" => LiveRefs + LiveRefMuts > 0
    /\ (rret.op = "try_get" /\ rret.result = "AlreadyBorrowed") => RefMutsOn(rret.key) > 0
    /\ (rret.op = "try_get_mut" /\ rret.result = "AlreadyBorrowed")
            => RefsOn(rret.key) + RefMutsOn(rret.key) > 0

InLoop(t) == rpc[t].at \in {"cas", "load"}

\* A step in which a thread other than t acquires or releases a guard
FlagChangedByOther(t) ==
    \E u \in Threads \ {t} : refs'[u] # refs[u] \/ muts'[u] # muts[u]

\* C6 as stated: no acquisition waits, a conflicting attempt returns its error
\* while the conflicting guard is live, and under fair scheduling every
\* thread inside the retry loop of obtain_immutable leaves it.
C6_LoopTerminatesUnderFairness ==
    /\ [](NeverWaits /\ ConflictReturnsAtOnce)
    /\ \A t \in Threads : InLoop(t) ~> ~InLoop(t)

\* C6 amended: no acquisition waits, a conflicting attempt returns its error
\* while the conflicting guard is live, and under fair scheduling a thread
\* inside the retry loop of obtain_immutable leaves it provided the other
\* threads eventually stop acquiring and releasing guards (the loop is
\* lock-free, not wait-free).
C6_LoopTerminatesUnlessInterfered ==
    /\ [](NeverWaits /\ ConflictReturnsAtOnce)
    /\ \A t \in Threads :
            (<>[][~FlagChangedByOther(t)]_vars) => (InLoop(t) ~> ~InLoop(t))

\* A thread is in a later iteration of the loop, its compare_and_swap having
\* failed, while another thread holds a Ref guard of the same key.
C6_Witness ==
    \E t \in Threads, u \in Threads :
        /\ t # u
        /\ rpc[t].at = "load"
        /\ refs[u][rpc[t].key] > 0

\* --- RefResources (SpecView, SpecSharedView)
AliasedKeys == {vrefs[i].key : i \in 1..Len(vrefs)}

\* A checked lookup made through the view has just returned
ViewLookupReturned ==
    /\ vlive
    /\ rret.thread = ViewThread
    /\ rret.op \in {"try_get", "try_get_mut"}

\* C11: a try_get / try_get_mut on the view consults the inner container
\* exactly when the type is absent from the aliased set; for an aliased type
\* the outcome is the aliased entry's alone: a guard of the external
\* variable, or AlreadyBorrowed.
C11_AliasedShadowsInner ==
    ViewLookupReturned =>
        /\ (vsrc = "inner") <=> (rret.key \notin AliasedKeys)
        /\ rret.key \in AliasedKeys =>
                IF rret.result = "Ok"
                THEN rret.value = ext[FindRef(rret.key)]
                ELSE rret.result = "AlreadyBorrowed"

\* C12: a type held only by the inner container is borrowed through the
\* view on the container's own flag and value: the flag counts the guards of
\* both paths, an attempt through one path fails with AlreadyBorrowed while
\* an exclusive guard taken through the other is live, an attempt through
\* the view fails only for a conflict or a missing entry, and a guard
\* obtained through the view reads the owned value.
C12_ViewSharesOwnedEntries ==
    \A k \in Keys \ AliasedKeys :
        /\ Has(k) =>
              \/ FlagOf(k) = RefsOn(k) /\ RefMutsOn(k) = 0
              \/ FlagOf(k) = FLAG_MAX /\ RefMutsOn(k) = 1 /\ RefsOn(k) = 0
        /\ (ViewLookupReturned /\ rret.key = k) =>
              /\ (\E t \in DirectThreads : muts[t][k] > 0) => rret.result = "AlreadyBorrowed"
              /\ rret.result = "Ok" => rret.value = ValueOf(k)
              /\ rret.result = "NotFound" <=> ~Has(k)
              /\ rret.result = "AlreadyBorrowed" =>
                    IF rret.op = "try_get" THEN RefMutsOn(k) > 0
                    ELSE RefMutsOn(k) + RefsOn(k) > 0
        /\ (vlive /\ rret.thread \in DirectThreads /\ rret.key = k
                  /\ rret.op \in {"try_get", "try_get_mut"} /\ muts[ViewThread][k] > 0) =>
              rret.result = "AlreadyBorrowed"

\* A direct try_get fails on a type the view does not alias while the owner
\* of the view holds the RefMut it obtained through the view, the view's own
\* entry being exclusively borrowed as well.
C12_Witness ==
    /\ vlive
    /\ rret.thread \in DirectThreads /\ rret.op = "try_get" /\ rret.result = "AlreadyBorrowed"
    /\ rret.key \notin AliasedKeys
    /\ muts[ViewThread][rret.key] = 1
    /\ \E i \in 1..Len(vrefs) : amuts[i] = 1

\* C13: a value written through get_mut on an aliased entry is what every
\* later get of that type on the view returns, it is the value of the
\* external variable (also after the view is dropped), and the inner
\* container keeps the values that were inserted into it.
C13_AliasedWriteThrough ==
    /\ \A i \in 1..Len(extW) : extW[i] # 0 => ext[i] = extW[i]
    /\ (/\ vlive /\ rret.thread = ViewThread /\ rret.op = "get" /\ rret.result = "Ok"
        /\ FindRef(rret.key) # 0
        /\ extW[FindRef(rret.key)] # 0) => rret.value = extW[FindRef(rret.key)]
    /\ \A k \in Keys : (Has(k) /\ ~written[k]) => ValueOf(k) = lastIns[k]

\* --- EntityIndexAllocator (SpecAlloc, SpecAllocContract)
\* C14: for any sequence of alloc / free calls, alloc returns the oldest index
\* of the free queue and removes it, the counter unchanged, if the queue is
\* not empty; otherwise it returns the counter's value and increments the
\* counter by one.  free appends at the young end of the queue.
C14_AllocFifoReuse ==
    /\ aret.op = "alloc" =>
          IF aret.free0 # << >>
          THEN /\ aret.value = aret.free0[1]
               /\ freeq = SubSeq(aret.free0, 2, Len(aret.free0))
               /\ next = aret.next0
          ELSE /\ aret.value = aret.next0
               /\ next = aret.next0 + 1
               /\ freeq = << >>
    /\ aret.op = "free" =>
          /\ freeq = aret.free0 \o <<aret.value>>
          /\ next = aret.next0

\* An alloc has just returned the older of two different queued indices.
C14_Witness ==
    /\ aret.op = "alloc"
    /\ Len(aret.free0) >= 2
    /\ aret.free0[1] # aret.free0[2]
    /\ aret.value = aret.free0[1]

\* C15: allocated() is the counter minus the length of the free queue; when
\* free is only called on an allocated index, once, it is the number of
\* indices currently allocated and the subtraction never underflows.
C15_AllocatedCountsLive ==
    /\ next >= Len(freeq)
    /\ aret.op # "allocated_panic"
    /\ aret.op = "allocated" =>
          /\ aret.value = aret.next0 - Len(aret.free0)
          /\ aret.value = Cardinality(live)

\* allocated() has just returned 2 with three indices handed out and one of
\* them back in the queue.
C15_Witness ==
    /\ aret.op = "allocated" /\ aret.value = 2
    /\ next = 3 /\ Len(freeq) = 1

\* --- Executor and EventHandlers (SpecExec)
IsSystemRun(x) == x.ev = "enter" /\ x.what = "system"
IsHandlerRun(x) == x.ev = "enter" /\ x.what = "handler"
IsExit(x) == x.ev = "exit"
SystemRuns == SelectSeq(log, IsSystemRun)

\* The position at which the context of invocation q was drained, 0 if it is not yet
ExitPos(q) ==
    IF \E p \in 1..Len(log) : IsExit(log[p]) /\ log[p].id = q
    THEN CHOOSE p \in 1..Len(log) : IsExit(log[p]) /\ log[p].id = q
    ELSE 0

\* The invocation an entry of the history belongs to
Owner(p) == IF IsExit(log[p]) THEN log[p].id ELSE p

\* Invocation i is q or was caused, directly or transitively, by q
RECURSIVE Within(_, _)
Within(i, q) == i = q \/ (i # 0 /\ Within(log[i].parent, q))

\* The calls the body of invocation q makes on its context
ScriptOf(q) ==
    IF log[q].what = "system" THEN SystemScript(log[q].kind) ELSE HandlerScript(log[q].kind)

\* The events of type e a script emits, in emission order
RECURSIVE ValuesOf(_, _)
ValuesOf(script, e) ==
    IF script = << >> THEN << >>
    ELSE (IF Head(script).etype = e THEN Head(script).events ELSE << >>)
            \o ValuesOf(Tail(script), e)

\* C16: one execute call runs every registered system exactly once, in the
\* order of the add_system / add_system_boxed calls.
C16_SystemsOnceInOrder ==
    /\ Len(SystemRuns) <= Len(systems)
    /\ \A n \in 1..Len(SystemRuns) :
            SystemRuns[n].reg = n /\ SystemRuns[n].kind = systems[n].kind
    /\ phase = "executed" => Len(SystemRuns) = Len(systems)

\* An execute call has returned after running two systems of different kinds.
C16_Witness ==
    /\ phase = "executed"
    /\ Len(SystemRuns) = 2
    /\ SystemRuns[1].kind # SystemRuns[2].kind

\* C17: when a system is invoked, the context of every invocation made
\* before it in the same execute call, the previous systems' and those of all
\* the handlers their events caused, has been drained completely.
C17_DrainedBeforeNextSystem ==
    \A p \in 1..Len(log) :
        IsSystemRun(log[p]) =>
            \A q \in 1..(p - 1) :
                log[q].ev = "enter" =>
                    LET x == ExitPos(q) IN
                    /\ x \in (q + 1)..(p - 1)
                    /\ log[x].owed = 0

\* The second system starts after a handler that was caused by a handler of
\* the first system's events.
C17_Witness ==
    \E p \in 1..Len(log) :
        /\ IsSystemRun(log[p]) /\ log[p].reg = 2
        /\ \E q \in 1..(p - 1) :
                /\ IsHandlerRun(log[q])
                /\ IsHandlerRun(log[log[q].parent])

\* C18: whenever a batch is dispatched the handlers registered for its type
\* are invoked in registration order, all of them once the dispatch is over:
\* by the drain of the Executor, and by EventHandlers::trigger.
C18_HandlersInRegistrationOrder ==
    /\ \A p \in 1..Len(log) :
            IsHandlerRun(log[p]) =>
                LET same(x) == IsHandlerRun(x) /\ x.disp = log[p].disp
                    runs == SelectSeq(log, same) IN
                /\ \A n \in 1..Len(runs) : runs[n].reg = n /\ runs[n].etype = log[p].etype
                /\ Len(runs) <= Len(event_handlers[log[p].etype])
                /\ phase = "executed" => Len(runs) = Len(event_handlers[log[p].etype])
    /\ \A n \in 1..Len(tlog) :
            /\ tlog[n].reg = n
            /\ Len(tlog) = Len(ehandlers[tlog[n].etype])

\* One dispatch of the Executor has invoked two handlers of different kinds.
C18_Witness ==
    \E p \in 1..Len(log), q \in 1..Len(log) :
        /\ IsHandlerRun(log[p]) /\ IsHandlerRun(log[q])
        /\ log[p].disp = log[q].disp
        /\ log[p].reg = 1 /\ log[q].reg = 2
        /\ log[p].kind # log[q].kind

\* C19: every handler invocation receives exactly the values of its event
\* type that the drained context's owner emitted, in emission order, whatever
\* the interleaving with other types; a handler is invoked at most once per
\* drained context, and once the context is drained every handler of every
\* type it held values of has been invoked.  The history only grows during a
\* call, so each entry is examined in the state that records it.
C19_BatchPerType ==
    log # << >> =>
        LET p == Len(log) IN
        /\ IsHandlerRun(log[p]) =>
              /\ HandlerType(log[p].kind) = log[p].etype
              /\ log[p].batch # << >>
              /\ log[p].batch = ValuesOf(ScriptOf(log[p].parent), log[p].etype)
              /\ \A q \in 1..(p - 1) :
                    ~(/\ IsHandlerRun(log[q]) /\ log[q].parent = log[p].parent
                      /\ log[q].etype = log[p].etype /\ log[q].reg = log[p].reg)
        /\ IsExit(log[p]) =>
              \A e \in EventTypes :
                  ValuesOf(ScriptOf(log[p].id), e) # << >> =>
                      \A n \in 1..Len(event_handlers[e]) :
                          \E q \in 1..(p - 1) :
                              /\ IsHandlerRun(log[q]) /\ log[q].parent = log[p].id
                              /\ log[q].etype = e /\ log[q].reg = n

\* The handlers of EventA and of EventB have received the batches <<1, 3, 4>>
\* and <<2>> of one system that emitted 1, 2, 3 and 4 in this order.
C19_Witness ==
    \E p \in 1..Len(log), q \in 1..Len(log) :
        /\ IsHandlerRun(log[p]) /\ IsHandlerRun(log[q])
        /\ log[p].parent = log[q].parent
        /\ log[p].etype = "EventA" /\ log[p].batch = <<1, 3, 4>>
        /\ log[q].etype = "EventB" /\ log[q].batch = <<2>>

\* C20: dispatch is depth-first.  Whatever happens while the context of an
\* invocation (of a system or a handler) is not yet drained was caused by
\* that invocation, directly or transitively, and nothing it caused happens
\* once the context is drained; a drain ends with every handler its events
\* call for invoked; when execute returns every context has been drained.
\* The history only grows during a call, so each entry is examined in the
\* state that records it.
C20_DepthFirst ==
    /\ log # << >> =>
          LET p == Len(log)
              drained == {log[r].id : r \in {r \in 1..(p - 1) : IsExit(log[r])}} IN
          /\ \A q \in 1..(p - 1) :
                log[q].ev = "enter" => (Within(Owner(p), q) <=> q \notin drained)
          /\ IsExit(log[p]) => log[p].owed = 0
    /\ phase = "executed" =>
          \A q \in 1..Len(log) : log[q].ev = "enter" => ExitPos(q) # 0

\* A handler of EventA, the handler of EventB it caused and the handler of
\* EventC that one caused were invoked in this order and their contexts were
\* drained in the opposite order.
C20_Witness ==
    \E q \in 1..Len(log) :
        /\ q + 5 <= Len(log)
        /\ IsHandlerRun(log[q]) /\ log[q].etype = "EventA"
        /\ IsHandlerRun(log[q + 1]) /\ log[q + 1].etype = "EventB" /\ log[q + 1].parent = q
        /\ IsHandlerRun(log[q + 2]) /\ log[q + 2].etype = "EventC" /\ log[q + 2].parent = q + 1
        /\ IsExit(log[q + 3]) /\ log[q + 3].id = q + 2
        /\ IsExit(log[q + 4]) /\ log[q + 4].id = q + 1
        /\ IsExit(log[q + 5]) /\ log[q + 5].id = q

\* The events invocation q emits, each with its type
Emitted(q) ==
    LET script == ScriptOf(q) IN
    UNION {{[etype |-> script[c].etype, v |-> script[c].events[i]] :
                i \in 1..Len(script[c].events)} : c \in 1..Len(script)}

\* The places of the batches given to handler n of type e at which the event
\* v emitted by invocation q occurs
Deliveries(q, e, v, n) ==
    UNION {{<<p, j>> : j \in {j \in 1..Len(log[p].batch) :
                                  log[p].batch[j] = v /\ log[p].by[j] = q}} :
              p \in {p \in 1..Len(log) :
                        IsHandlerRun(log[p]) /\ log[p].etype = e /\ log[p].reg = n}}

\* C21: every event a system or a handler emits during an execute call is
\* delivered exactly once to each handler registered for its type before the
\* call returns, and never more than once before that; a batch holds only
\* events that the owner of the drained context emitted into it for this
\* drain, none left from an earlier drain or an earlier call.
C21_ExactlyOnceDelivery ==
    /\ log # << >> /\ IsHandlerRun(log[Len(log)]) =>
          LET x == log[Len(log)] IN
          /\ x.batch # << >>
          /\ \A j \in 1..Len(x.batch) :
                /\ x.by[j] = x.parent
                /\ [etype |-> x.etype, v |-> x.batch[j]] \in Emitted(x.parent)
                /\ Cardinality(Deliveries(x.parent, x.etype, x.batch[j], x.reg)) = 1
    /\ phase = "executed" =>
          \A q \in 1..Len(log) :
              log[q].ev = "enter" =>
                  \A ev \in Emitted(q) :
                      \A n \in 1..Len(event_handlers[ev.etype]) :
                          Cardinality(Deliveries(q, ev.etype, ev.v, n)) = 1

\* An execute call has returned in which the same system ran twice and
\* emitted the same values both times, a handler having received each batch,
\* after an earlier execute call left the pooled contexts with buckets.
C21_Witness ==
    /\ phase = "executed"
    /\ \E c \in 1..Len(system_ctxs) : DOMAIN system_ctxs[c] # {}
    /\ \E p \in 1..Len(log), q \in 1..Len(log) :
          /\ p < q
          /\ IsHandlerRun(log[p]) /\ IsHandlerRun(log[q])
          /\ log[p].batch = <<1, 3, 4>> /\ log[q].batch = <<1, 3, 4>>
          /\ log[p].parent # log[q].parent

\* The contexts checked out and not yet returned, and the contexts made
\* because the pool was empty, in the current execute call
CheckedOut == Cardinality({i \in 1..Len(stack) : stack[i].kind = "drain"})
FreshPulls == Cardinality({p \in 1..Len(log) : log[p].ev = "enter" /\ log[p].fresh})

\* C22: a checkout never waits and never fails: whenever execute is about to
\* run a system or a handler the step is enabled, whatever the pool holds;
\* the invocation made last has its context, and if it found the pool empty
\* that context is a new one, which holds no bucket but those its body
\* emitted into, and the pool is still empty.
C22_CheckoutNeverBlocks ==
    /\ (stack # << >> /\ Top.kind = "execute" /\ Top.i <= Len(systems)) => ENABLED system_run
    /\ (Len(stack) >= 2 /\ Top.kind = "handle" /\ Top.i <= Len(event_handlers[Top.etype]))
            => ENABLED handler_handle
    /\ (log # << >> /\ log[Len(log)].ev = "enter") =>
            \E i \in 1..Len(stack) :
                /\ stack[i].kind = "drain" /\ stack[i].inv = Len(log)
                /\ log[Len(log)].fresh =>
                      /\ system_ctxs = << >>
                      /\ CheckedOut = pool0 + FreshPulls
                      /\ \A e \in DOMAIN stack[i].store :
                            \E ev \in Emitted(Len(log)) : ev.etype = e

\* A handler has just been invoked on a new context, more contexts being
\* checked out than the pool started with.
C22_Witness ==
    /\ log # << >>
    /\ IsHandlerRun(log[Len(log)]) /\ log[Len(log)].fresh
    /\ CheckedOut > PoolCap
    /\ system_ctxs = << >>

\* C23: during an execute call no context is lost; when the call returns no
\* context is checked out, the pool holds the contexts it held when the call
\* began and the ones made during the call, and every bucket of every pooled
\* context has length zero.
C23_ContextsClearedAndReturned ==
    /\ phase \in {"executing", "executed"} =>
          Len(system_ctxs) + CheckedOut = pool0 + FreshPulls
    /\ phase = "executed" =>
          /\ CheckedOut = 0
          /\ Len(system_ctxs) = pool0 + FreshPulls
          /\ \A c \in 1..Len(system_ctxs) :
                \A e \in DOMAIN system_ctxs[c] : Len(system_ctxs[c][e]) = 0

\* An execute call has returned that made new contexts; the pool is larger
\* than at first and holds a context whose buckets were filled and cleared.
C23_Witness ==
    /\ phase = "executed"
    /\ FreshPulls > 0
    /\ Len(system_ctxs) > PoolCap
    /\ \E c \in 1..Len(system_ctxs) : Cardinality(DOMAIN system_ctxs[c]) >= 2

\* --- build_executor (SpecRegistry)
\* C25: the first build_executor call, no other call being made meanwhile,
\* returns an executor that holds each registered system exactly once; every
\* call that begins after it has returned aborts with "already built
\* executor" if at least one system is registered.
C25_BuildOnlyOnce ==
    \A x \in 1..Len(bret) :
        /\ (bret[x].n = 1 /\ bret[x].alone) =>
              /\ bret[x].result = "Ok"
              /\ Len(bret[x].systems) = Len(registry)
              /\ \A i \in 1..Len(registry) :
                    Cardinality({j \in 1..Len(bret[x].systems) : bret[x].systems[j] = i}) = 1
        /\ (bret[x].later /\ registry # << >>) =>
              /\ bret[x].result = "panic"
              /\ bret[x].msg = "already built executor"

\* --- ErasedVec (SpecVec)
\* C24: clear sets len to zero and changes neither ptr nor capacity nor
\* layout; it deallocates nothing, tears down no element and leaves the slots
\* of the allocation as they are.  A push or extend for which the capacity
\* suffices, also one that follows a clear, keeps ptr and capacity and makes
\* no allocation.
C24_ClearKeepsAllocation ==
    /\ eret.op = "clear" =>
          /\ evec.len = 0
          /\ evec.ptr = eret.vec0.ptr
          /\ evec.capacity = eret.vec0.capacity
          /\ evec.layout = eret.vec0.layout
          /\ eheap = eret.heap0
          /\ emem = eret.mem0
          /\ eret.torn = 0 /\ eret.freed = << >>
    /\ (eret.op \in {"push", "extend"} /\ eret.vec0.len + eret.n <= eret.vec0.capacity) =>
          /\ evec.ptr = eret.vec0.ptr
          /\ evec.capacity = eret.vec0.capacity
          /\ eheap = eret.heap0
          /\ evec.len = eret.vec0.len + eret.n

\* A vector that held three values was cleared, and an extend by two values
\* has just reused its allocation.
C24_Witness ==
    /\ ecleared
    /\ eret.op = "extend" /\ eret.n = 2
    /\ eret.vec0.len = 0 /\ eret.vec0.capacity = 3
    /\ eret.mem0[3] # 0
    /\ evec.ptr = eret.vec0.ptr /\ evec.len = 2

\* --- AtomicRefCell with a wrapping flag (SpecCellWrap)
\* C28: whenever no AtomicRefMut is live the flag equals the number of live
\* AtomicRef guards (the increments of failed try_borrow calls are there only
\* while an AtomicRefMut is live, and release_mut erases them), and a
\* try_borrow_mut that fails leaves the flag as it was.
C28_FlagAccounting ==
    /\ [](LiveRefMuts = 0 => flag = LiveRefs)
    /\ [][(cret'.op \in {"try_borrow_mut", "borrow_mut"} /\ cret'.result # "Ok" /\ cret' # cret)
                => flag' = flag]_vars

\* C29: under every interleaving, no drop of an AtomicRef fails a debug
\* assertion of release_ref: the exclusive bit of the flag is clear and the
\* flag is greater than zero when the drop tests them.
C29_ReleaseRefAssertionsHold ==
    /\ cret.op = "release_ref" => cret.result # "panic"
    /\ \A t \in Threads : cpc[t] \in {"rel_sub", "rel_sub_unwind"} => flag > 0

\* C30: with the flag a FlagBits wide unsigned integer, whatever the number
\* of failed try_borrow attempts made while an AtomicRefMut is live and
\* whatever the number of live AtomicRef guards, a try_borrow_mut succeeds
\* only if no guard is live, an AtomicRefMut is never live together with
\* another guard, and the flag of a cell with live AtomicRef guards and no
\* AtomicRefMut does not have the exclusive bit set.
C30_ExclusionSurvivesWrap ==
    /\ (cret.op \in {"try_borrow_mut", "borrow_mut"} /\ cret.result = "Ok")
            => (RefsBefore = 0 /\ RefMutsBefore = 0)
    /\ LiveRefMuts > 0 => (LiveRefMuts = 1 /\ LiveRefs = 0)
    /\ (LiveRefs > 0 /\ LiveRefMuts = 0) => ~MutBitSet(flag)

\* --- AtomicRefCell and BorrowFlag side by side (SpecPair)
\* The cell and the entry hold the same guards and neither is inside a call.
PairRelated ==
    /\ Has(PairKey)
    /\ \A t \in SeqThreads :
        /\ cpc[t] = "idle" /\ rpc[t].at = "idle"
        /\ readers[t] = refs[t][PairKey]
        /\ (writers[t] > 0) = (muts[t][PairKey] > 0)

\* C26: in states related by the same number of live shared guards and the
\* same presence of a live exclusive guard, the flag of AtomicRefCell and
\* the BorrowFlag of the entry accept and reject the same operations: a
\* shared acquire succeeds on the one iff it succeeds on the other, and so
\* does an exclusive acquire, whatever phantom increments the cell's flag
\* carries.
C26_SameAcceptance ==
    PairRelated =>
        \A t \in SeqThreads :
            /\ (ENABLED (try_borrow(t) /\ cret'.result = "Ok"))
                    = (ENABLED (try_get(t, PairKey) /\ rpc'[t].at = "cas"))
            /\ (ENABLED (try_borrow_mut(t) /\ cret'.result = "Ok"))
                    = (ENABLED (try_get_mut(t, PairKey) /\ rret'.result = "Ok"))

\* --- the error kinds of the checked accessors (SpecSharedView)
\* The entry of the aliased set that shadows the key of the lookup recorded
\* in rret: 0 if the lookup was made on the container itself or the view
\* does not alias the key.
ShadowingRef ==
    IF vlive /\ rret.thread = ViewThread THEN FindRef(rret.key) ELSE 0

\* The flag of the layer that shadows was in conflict with the lookup
\* recorded in rret when it was made: an exclusive guard for try_get, any
\* guard for try_get_mut (the guard the lookup itself created set aside).
AliasedInConflict(i) ==
    IF rret.op = "try_get" THEN amuts[i] > 0
    ELSE arefs[i] > 0 \/ (amuts[i] > 0 /\ ~(rret.result = "Ok" /\ vsrc = "alias"))
InnerInConflict(k) ==
    IF rret.op = "try_get" THEN RefMutsOn(k) > 0
    ELSE RefsOn(k) > 0 \/ RefMutsOn(k) > (IF rret.result = "Ok" THEN 1 ELSE 0)

\* C27: a try_get / try_get_mut on OwnedResources or on RefResources returns
\* NotFound only if the type is absent from the aliased set and from the
\* inner container, and returns AlreadyBorrowed whenever the type is present
\* in the layer that shadows and its flag is in conflict.
C27_ErrorKindPerLayer ==
    rret.op \in {"try_get", "try_get_mut"} =>
        /\ rret.result = "NotFound" => (ShadowingRef = 0 /\ ~Has(rret.key))
        /\ (ShadowingRef # 0 /\ AliasedInConflict(ShadowingRef)) => rret.result = "AlreadyBorrowed"
        /\ (ShadowingRef = 0 /\ Has(rret.key) /\ InnerInConflict(rret.key))
                => rret.result = "AlreadyBorrowed"

\* --- the contexts of the handlers (SpecExec)
\* C31: the context handed to a handler is not the context being drained
\* nor any other context that is checked out and not yet returned, and no
\* checked-out context is in the pool; the events a handler emits are in its
\* own context, the bucket whose batch is being dispatched still holding
\* that batch and nothing else.
C31_HandlerContextDistinct ==
    /\ Len(out_ids) = CheckedOut
    /\ \A i, j \in 1..Len(out_ids) : i # j => out_ids[i] # out_ids[j]
    /\ \A i \in 1..Len(out_ids), j \in 1..Len(ctx_ids) : out_ids[i] # ctx_ids[j]
    /\ \A p \in 2..Len(stack) :
            (stack[p].kind = "handle" /\ stack[p - 1].kind = "drain") =>
                stack[p - 1].store[stack[p].etype] = stack[p].batch

\* A handler was given a pooled context while the context of a system and
\* the context of another handler were checked out, and has emitted events.
C31_Witness ==
    /\ Len(out_ids) >= 3
    /\ log # << >> /\ log[Len(log)].ev = "enter" /\ log[Len(log)].what = "handler"
    /\ ~log[Len(log)].fresh
    /\ Top.kind = "drain" /\ \E e \in DOMAIN Top.store : Top.store[e] # << >>

\* --- event types without a handler (SpecExec)
NoHandler(e) == event_handlers[e] = << >>

\* C32: the events of a type no handler is registered for are discarded by
\* the drain: no handler is invoked for them, the dispatch of such a bucket
\* ends at once and without an error, a bucket the drain is done with is
\* empty whether it had handlers or not, and the other events of an
\* invocation that emitted such events reach each of their handlers once.
C32_UnhandledEventsDiscarded ==
    /\ (log # << >> /\ IsHandlerRun(log[Len(log)])) => ~NoHandler(log[Len(log)].etype)
    /\ (Len(stack) >= 2 /\ Top.kind = "handle" /\ NoHandler(Top.etype)) =>
            /\ ENABLED handle_end
            /\ ~ENABLED handler_handle
    /\ \A i \in 1..Len(stack) :
            stack[i].kind = "drain" =>
                \A e \in DOMAIN stack[i].store \ stack[i].remaining : stack[i].store[e] = << >>
    /\ phase = "executed" =>
            \A q \in 1..Len(log) :
                (log[q].ev = "enter" /\ \E u \in Emitted(q) : NoHandler(u.etype)) =>
                    \A ev \in Emitted(q) :
                        /\ \A n \in 1..Len(event_handlers[ev.etype]) :
                                Cardinality(Deliveries(q, ev.etype, ev.v, n)) = 1
                        /\ NoHandler(ev.etype) =>
                                \A p \in 1..Len(log) :
                                    ~(IsHandlerRun(log[p]) /\ log[p].etype = ev.etype)

\* An execute call has returned in which a system emitted events of a type
\* without a handler and events of a type with one, the bucket of the
\* former cleared and pooled.
C32_Witness ==
    /\ phase = "executed"
    /\ \E q \in 1..Len(log) :
          /\ IsSystemRun(log[q])
          /\ \E u \in Emitted(q), ev \in Emitted(q) :
                /\ NoHandler(u.etype) /\ ~NoHandler(ev.etype)
                /\ \E c \in 1..Len(system_ctxs) :
                      u.etype \in DOMAIN system_ctxs[c] /\ system_ctxs[c][u.etype] = << >>

\* --- bodies that panic (SpecExecAbort)
\* C33: no event that a system or a handler emitted before it panicked, and
\* no event that was queued in a context when the panic unwound the execute
\* call, is in a batch given to a handler during a later execute call.
C33_AbortLeavesNoQueuedEvents ==
    (log # << >> /\ IsHandlerRun(log[Len(log)])) =>
        \A j \in 1..Len(log[Len(log)].by) : log[Len(log)].by[j] # 0

\* --- termination of execute (FairSpecExec)
\* C34: with bodies that return and handlers whose emissions form no cycle,
\* every execute call returns, and when it has returned no context is
\* checked out and every bucket of every context has been drained.
C34_ExecuteTerminates ==
    (phase = "executing") ~>
        (phase = "executed" /\ stack = << >> /\ out_ids = << >> /\ Queued(system_ctxs) = 0)

\* An execute call has returned in which a handler of EventC handled what a
\* handler of EventB emitted while handling what a handler of EventA emitted.
C34_Witness ==
    /\ phase = "executed"
    /\ \E q \in 1..Len(log) :
          /\ IsHandlerRun(log[q]) /\ log[q].etype = "EventC"
          /\ log[q].parent > 0 /\ IsHandlerRun(log[log[q].parent])
          /\ log[log[q].parent].etype = "EventB"
          /\ IsHandlerRun(log[log[log[q].parent].parent])

\* --- no index is allocated twice (SpecAllocContract)
\* C35: when free is called only on an allocated index, once per allocation,
\* alloc never returns an index that is allocated: the index it returns was
\* in no live allocation (every alloc makes the allocated indices one more),
\* no queued index is allocated, the free queue holds no index twice and
\* every queued index is below the counter.
C35_NoDoubleAllocation ==
    /\ Cardinality(live) + Len(freeq) = next
    /\ \A i \in 1..Len(freeq) :
          /\ freeq[i] \notin live
          /\ freeq[i] < next
          /\ \A j \in 1..Len(freeq) : i # j => freeq[i] # freeq[j]
    /\ \A x \in live : x < next
    /\ aret.op = "alloc" =>
          /\ aret.value \in live
          /\ Cardinality(live) = (aret.next0 - Len(aret.free0)) + 1

\* alloc has just returned the oldest of two queued indices while another
\* index was allocated; the younger one is still queued.
C35_Witness ==
    /\ aret.op = "alloc"
    /\ Len(aret.free0) = 2 /\ aret.value = aret.free0[1]
    /\ Cardinality(live) = 2
    /\ freeq = <<aret.free0[2]>>

\* --- ErasedVec: appending (SpecVec)
\* C36: after any sequence of push, extend and clear calls, len is the
\* number of values appended since the last clear, the elements are those
\* values in the order they were appended (a reallocation keeps the earlier
\* ones), and len <= capacity in every state.
C36_AppendSemantics ==
    /\ evec.len <= evec.capacity
    /\ estate = "live" =>
          /\ evec.len = Len(eappended)
          /\ Elements = eappended
          /\ evec.capacity > 0 => (evec.ptr \in eheap /\ Len(emem) = evec.capacity)

\* A push or extend has just moved the allocation of a vector that held
\* values appended after a clear, and the vector holds three values.
C36_Witness ==
    /\ estate = "live"
    /\ eret.op \in {"push", "extend"}
    /\ ecleared
    /\ eret.vec0.len >= 1 /\ eret.vec0.capacity > 0
    /\ evec.ptr # eret.vec0.ptr
    /\ evec.len = 3

\* --- ErasedVec: releasing the memory (SpecVec)
\* C37: a vector releases its memory exactly once and only if it owns some:
\* dropping a vector of capacity zero deallocates nothing, dropping one of
\* capacity > 0 deallocates its allocation once, and after drop_as the
\* erased Drop does not run.
C37_ReleasedOnceIfAllocated ==
    eret.op \in {"drop", "drop_as"} =>
        /\ eret.vec0.capacity = 0 => eret.freed = << >>
        /\ eret.vec0.capacity > 0 =>
              /\ eret.freed = <<eret.vec0.ptr>>
              /\ eret.vec0.ptr \in eret.heap0
              /\ eret.vec0.ptr \notin eheap
        /\ eret.op = "drop_as" => ~ENABLED ErasedVec_drop

\* --- EventHandlers::trigger (SpecExec)
\* C38: when trigger returns, each handler registered for the type of the
\* event has been called exactly once with that event and no handler of
\* another type has been called; what the handlers wrote to the resource
\* and to the world is there for the caller; with no handler registered
\* for the type the call has changed nothing.
C38_TriggerIsSynchronous ==
    tret.op = "trigger" =>
        LET hs == ehandlers[tret.etype] IN
        /\ \A h \in 1..Len(hs) :
                Cardinality({n \in 1..Len(tlog) :
                    tlog[n].kind = hs[h].kind /\ tlog[n].reg = hs[h].reg}) = 1
        /\ \A n \in 1..Len(tlog) :
                /\ HandlerType(tlog[n].kind) = tret.etype
                /\ tlog[n].etype = tret.etype
                /\ tlog[n].event = tret.event
        /\ Len(tlog) = Len(hs)
        /\ hs # << >> => tvalues = [resource |-> tret.event, component |-> tret.event]
        /\ hs = << >> => tvalues = tret.values0

\* A trigger has called two handlers of its type, a handler of another type
\* being registered, and has changed the resource and the component.
C38_Witness ==
    /\ tret.op = "trigger"
    /\ Len(tlog) = 2
    /\ \E e \in EventTypes \ {tret.etype} : ehandlers[e] # << >>
    /\ tvalues # tret.values0
    /\ tvalues.component = tret.event

\* A trigger of a type with no handler, handlers of another type being
\* registered, has returned.
C38_WitnessNoHandler ==
    /\ tret.op = "trigger"
    /\ ehandlers[tret.etype] = << >>
    /\ \E e \in EventTypes : ehandlers[e] # << >>
    /\ tret.values0.resource # 0

\* --- EntityBuilder (SpecBuilder)
\* C39: once the BuiltEntity of build_one has been spawned the builder holds
\* no entry and its cursor is 0, and the entity holds exactly the components
\* added since the spawn before; adding a component of a type the builder
\* holds replaces the value, adds no entry and leaves the cursor.
C39_BuilderReuse ==
    /\ ebret.op = "spawn" =>
          LET entity == spawned[Len(spawned)] IN
          /\ component_data = << >>
          /\ cursor = 0
          /\ Len(entity) = Cardinality(ebret.added0)
          /\ {entity[n] : n \in 1..Len(entity)} = ebret.added0
    /\ (ebret.op = "add" /\ ebret.present) =>
          /\ Len(component_data) = ebret.len0
          /\ cursor = ebret.cursor0
          /\ \E n \in 1..Len(component_data) :
                /\ component_data[n].ty = ebret.ty
                /\ ReadAt(components, ebret.ty, component_data[n].offset) = ebret.value

\* The second entity of a builder has been spawned with two components,
\* one of them replaced before the spawn, and differs from the first.
C39_Witness ==
    /\ ebret.op = "spawn"
    /\ Len(spawned) = 2
    /\ Len(spawned[1]) >= 1
    /\ Len(spawned[2]) = 2
    /\ \A n \in 1..Len(spawned[1]) : \A m \in 1..2 :
            spawned[1][n].ty = spawned[2][m].ty => spawned[1][n].value # spawned[2][m].value
====
